---- MODULE Spec2Model ----
(***************************************************************************)
(* A model of the ImportIQ scraping core: RateLimiter, ProxyManager and    *)
(* BaseScraper.make_request (src/scrapers/base_scraper.py), DataValidator  *)
(* (src/data_pipeline/validator.py) and ImportIQScheduler                  *)
(* (src/utils/scheduler.py).                                               *)
(*                                                                         *)
(* Granularity: one action per Python statement (an `if` with its test and *)
(* the assignments of one branch counts as one statement).  A sleeping     *)
(* thread records its wake-up time and resumes once the clock has reached  *)
(* it; the clock advances by Tick at any moment.                           *)
(***************************************************************************)
EXTENDS Integers, Sequences, FiniteSets, TLC

(***************************************************************************)
(* Bounds of the model (configuration values chosen small) and constants   *)
(* of the program.                                                         *)
(***************************************************************************)
\* config 'rate_limit': RateLimiter.requests_per_minute
requests_per_minute == 2
\* retry_config['max_retries']
max_retries == 2
\* the clock stops advancing here
MaxTime == 64
\* the clock bound of the specifications with two threads
MaxTimeConc == 3
\* longest proxy list drawn at construction
MaxPool == 3
\* ProxyManager.current_index is capped here
MaxIndex == 4

\* length of the rate window in seconds
WindowSeconds == 60
\* config 'delay_range' default (1, 3)
delay_lo == 1
delay_hi == 3
\* retry_config defaults
backoff_factor == 2
max_delay == 60
\* random.uniform(5, 15) of the retryable-status backoff
backoff_lo == 5
backoff_hi == 15

Threads == {1, 2}
Routes == {"p1", "p2", "p3"}
None == "None"

Min(a, b) == IF a <= b THEN a ELSE b

RECURSIVE Pow(_, _)
Pow(b, e) == IF e = 0 THEN 1 ELSE b * Pow(b, e - 1)

\* all sequences over S of length at most n
RECURSIVE SeqsUpTo(_, _)
SeqsUpTo(S, n) ==
    IF n = 0 THEN {<<>>}
    ELSE LET shorter == SeqsUpTo(S, n - 1)
         IN shorter \cup {Append(s, x) : s \in {q \in shorter : Len(q) = n - 1}, x \in S}

\* [p for p in xs if p not in bad]
RECURSIVE FilterOut(_, _)
FilterOut(xs, bad) ==
    IF xs = <<>> THEN <<>>
    ELSE IF Head(xs) \in bad THEN FilterOut(Tail(xs), bad)
         ELSE <<Head(xs)>> \o FilterOut(Tail(xs), bad)

Range(s) == {s[i] : i \in 1..Len(s)}

VARIABLES
    \* the clock (time.time()), in seconds
    now,
    \* per thread: program counter, return address of the current call,
    \* wake-up time of the current sleep
    pc, ret, wake,
    \* RateLimiter fields
    request_count, window_start,
    \* wait(): local current_time per thread
    current_time,
    \* observation: calls admitted without a rate-limit sleep since the last
    \* assignment to window_start; per thread, whether the current call slept
    admitted, slept,
    \* observation: the start of an interval of 60 seconds, and the number
    \* of calls of wait() that returned within it
    interval_start, in_interval,
    \* ProxyManager fields
    proxies, current_index, failed_proxies,
    \* get_proxy(): local available_proxies per thread; value last returned
    \* ("unset" before the first return); whether the call cleared the
    \* quarantine set
    available, got, cleared,
    \* get_proxy(): per thread the value of current_index read by += 1
    index_read,
    \* observation: the routes get_proxy returned since the quarantine set
    \* last changed, oldest first
    returned,
    \* make_request(): loop variable attempt, requests issued by the current
    \* call, its result, the outcome of the last request, and the route of the
    \* last failed attempt of the current call and the time at which that
    \* attempt failed; observation: the calls of wait() and of get_proxy()
    \* the current call has made and that have returned
    attempt, requests, result, outcome, failed_route, failed_at, passed,
    \* DataValidator.validate_batch: its arguments and what the call returned
    data_type, data_list, batch_out,
    \* what get_validation_summary returned for the results of that call
    summary,
    \* what config_path points at; whether __init__ has returned ("no",
    \* "yes") or the exception it raised; the configuration: the names of
    \* the enabled jobs
    config_path, constructed, enabled,
    \* ImportIQScheduler fields is_running, thread (0 is None) and stats
    is_running, thread, stats,
    \* the schedule library: the list of jobs and the ids of the due jobs
    jobs, due,
    \* per executor: program counter and locals
    spc, frame,
    \* the arguments of the last call of _store_to_database, and the
    \* validation results of the run that made it; the counters carried by
    \* the last daily report; the status the caller got from its last
    \* get_status()
    stored, report, last_status,
    \* observation: per executor the run it is in and the last run it
    \* completed; counts of calls, job runs granted and started, due
    \* events, jobs created, returns of start() and calls of stop(), and
    \* whether stop() has returned with no call of start() since
    run, done, ctr

timeVars == <<now>>
threadVars == <<pc, ret, wake>>
limVars == <<request_count, window_start, current_time, admitted, slept, interval_start, in_interval>>
poolVars == <<proxies, current_index, failed_proxies, available, got, cleared, index_read, returned>>
fetchVars == <<attempt, requests, result, outcome, failed_route, failed_at, passed>>
scraperVars == <<timeVars, threadVars, limVars, poolVars, fetchVars>>
valVars == <<data_type, data_list, batch_out, summary>>
schedVars == <<config_path, constructed, enabled, is_running, thread, stats, jobs, due, spc, frame, stored, report, last_status,
               run, done, ctr>>
vars == <<scraperVars, valVars, schedVars>>

(***************************************************************************)
(* The clock.                                                              *)
(***************************************************************************)
SleepLabels == {"w_sleep", "w_jsleep", "mr_backoff"}
Sleepers == {t \in Threads : pc[t] \in SleepLabels}
Running == {t \in Threads : pc[t] \notin SleepLabels \cup {"idle"}}
NextWake == CHOOSE w \in {wake[t] : t \in Sleepers} :
                \A t \in Sleepers : w <= wake[t]

\* one second passes
Tick == /\ now < MaxTime
        /\ now' = now + 1
        /\ UNCHANGED <<valVars, schedVars, threadVars, limVars, poolVars, fetchVars>>

\* one second passes while the clock is below MaxTimeConc; later the clock
\* moves only while no thread is executing, to the next wake-up time
TickConc ==
    /\ now' \in (IF now < MaxTimeConc THEN {now + 1} ELSE {}) \cup
                (IF Running = {} /\ Sleepers # {} /\ now < NextWake /\ NextWake <= MaxTime
                 THEN {NextWake} ELSE {})
    /\ UNCHANGED <<valVars, schedVars, threadVars, limVars, poolVars, fetchVars>>

\* return from the current call of thread t
Return(t) == /\ pc' = [pc EXCEPT ![t] = ret[t]]
             /\ ret' = [ret EXCEPT ![t] = "idle"]

Goto(t, l) == /\ pc' = [pc EXCEPT ![t] = l]
              /\ UNCHANGED ret

\* a call made by make_request returns: wait() at line 102 (continuation
\* mr_proxy), get_proxy() at line 105 (continuation mr_request)
WaitReturns(t) ==
    passed' = IF ret[t] = "mr_proxy" THEN [passed EXCEPT ![t].waits = @ + 1] ELSE passed
RouteReturns(t) ==
    passed' = IF ret[t] = "mr_request" THEN [passed EXCEPT ![t].routes = @ + 1] ELSE passed

(***************************************************************************)
(* RateLimiter.wait()                                                      *)
(***************************************************************************)
\* line 234: current_time = time.time()
wait_read_time(t) ==
    /\ pc[t] = "w_time"
    /\ current_time' = [current_time EXCEPT ![t] = now]
    /\ slept' = [slept EXCEPT ![t] = FALSE]
    /\ Goto(t, "w_reset")
    /\ UNCHANGED <<valVars, schedVars, now, wake, request_count, window_start, admitted, interval_start, in_interval, poolVars, fetchVars>>

\* lines 237-239: reset the window once 60 s have passed
wait_reset_window(t) ==
    /\ pc[t] = "w_reset"
    /\ IF current_time[t] - window_start >= WindowSeconds
       THEN /\ window_start' = current_time[t]
            /\ request_count' = 0
            /\ admitted' = 0
       ELSE UNCHANGED <<window_start, request_count, admitted>>
    /\ Goto(t, "w_gate")
    /\ UNCHANGED <<valVars, schedVars, now, wake, current_time, slept, interval_start, in_interval, poolVars, fetchVars>>

\* the gate with > in place of >=
GateClosedOffByOne == request_count > requests_per_minute

\* the test of line 242
GateClosed == request_count >= requests_per_minute

\* lines 242-245: the rate gate; sleeps wait_time when the window is full
wait_gate(t) ==
    /\ pc[t] = "w_gate"
    /\ LET wait_time == WindowSeconds - (current_time[t] - window_start)
       IN IF GateClosed /\ wait_time > 0
          THEN /\ wake' = [wake EXCEPT ![t] = now + wait_time]
               /\ slept' = [slept EXCEPT ![t] = TRUE]
               /\ Goto(t, "w_sleep")
               /\ UNCHANGED admitted
          ELSE /\ admitted' = admitted + 1
               /\ Goto(t, "w_jitter")
               /\ UNCHANGED <<wake, slept>>
    /\ UNCHANGED <<valVars, schedVars, now, request_count, window_start, current_time, interval_start, in_interval, poolVars, fetchVars>>

\* lines 245-247: time.sleep(wait_time) returns; the window restarts
wait_after_sleep(t) ==
    /\ pc[t] = "w_sleep"
    /\ now >= wake[t]
    /\ window_start' = now
    /\ request_count' = 0
    /\ admitted' = 0
    /\ Goto(t, "w_jitter")
    /\ UNCHANGED <<valVars, schedVars, now, wake, current_time, slept, interval_start, in_interval, poolVars, fetchVars>>

\* lines 250-251: delay = random.uniform(*delay_range); time.sleep(delay)
wait_jitter(t) ==
    /\ pc[t] = "w_jitter"
    /\ \E delay \in delay_lo..delay_hi :
           wake' = [wake EXCEPT ![t] = now + delay]
    /\ Goto(t, "w_jsleep")
    /\ UNCHANGED <<valVars, schedVars, now, limVars, poolVars, fetchVars>>

\* the result of line 253
CountAfter == request_count + 1

\* time t lies in the observed interval of 60 seconds
InInterval(t) == interval_start <= t /\ t < interval_start + WindowSeconds

\* lines 253-254: request_count += 1, last_request_time = time.time(), and
\* wait() returns
wait_count(t) ==
    /\ pc[t] = "w_jsleep"
    /\ now >= wake[t]
    /\ request_count' = CountAfter
    /\ in_interval' = IF InInterval(now) THEN in_interval + 1 ELSE in_interval
    /\ Return(t)
    /\ WaitReturns(t)
    /\ UNCHANGED <<valVars, schedVars, now, wake, window_start, current_time, admitted, slept, interval_start, poolVars,
                   attempt, requests, result, outcome, failed_route, failed_at>>

wait(t) == \/ wait_read_time(t)
           \/ wait_reset_window(t)
           \/ wait_gate(t)
           \/ wait_after_sleep(t)
           \/ wait_jitter(t)
           \/ wait_count(t)

\* a caller invokes rate_limiter.wait() directly
CallWait(t) ==
    /\ pc[t] = "idle"
    /\ pc' = [pc EXCEPT ![t] = "w_time"]
    /\ ret' = [ret EXCEPT ![t] = "idle"]
    /\ UNCHANGED <<valVars, schedVars, now, wake, limVars, poolVars, fetchVars>>

(***************************************************************************)
(* ProxyManager.get_proxy() and mark_failed()                              *)
(***************************************************************************)
\* lines 201-202: if not self.proxies: return None
get_proxy_empty(t) ==
    /\ pc[t] = "gp_empty"
    /\ IF proxies = <<>>
       THEN /\ got' = [got EXCEPT ![t] = None]
            /\ RouteReturns(t)
            /\ Return(t)
       ELSE /\ Goto(t, "gp_avail")
            /\ UNCHANGED <<got, passed>>
    /\ cleared' = [cleared EXCEPT ![t] = FALSE]
    /\ UNCHANGED <<valVars, schedVars, now, wake, limVars, proxies, index_read, current_index, failed_proxies,
                   available, returned, attempt, requests, result, outcome, failed_route, failed_at>>

\* a list comprehension without its condition
AllProxies(ps, failed) == ps

\* line 204: [p for p in self.proxies if p not in self.failed_proxies]
AvailableProxies(ps, failed) == FilterOut(ps, failed)

\* line 204: available_proxies = [p for p in self.proxies if p not in failed]
get_proxy_available(t) ==
    /\ pc[t] = "gp_avail"
    /\ available' = [available EXCEPT ![t] = AvailableProxies(proxies, failed_proxies)]
    /\ Goto(t, "gp_reset")
    /\ UNCHANGED <<valVars, schedVars, now, wake, limVars, proxies, index_read, current_index, failed_proxies,
                   got, cleared, returned, fetchVars>>

\* the fallback forgotten: nothing is available after the reset
FallBackNothing(ps) == <<>>

\* line 208: available_proxies = self.proxies
FallBack(ps) == ps

\* lines 205-208: all routes quarantined: clear the set, use the whole pool
get_proxy_reset(t) ==
    /\ pc[t] = "gp_reset"
    /\ IF available[t] = <<>>
       THEN /\ failed_proxies' = {}
            /\ available' = [available EXCEPT ![t] = FallBack(proxies)]
            /\ cleared' = [cleared EXCEPT ![t] = TRUE]
            /\ returned' = IF failed_proxies = {} THEN returned ELSE <<>>
       ELSE UNCHANGED <<failed_proxies, available, cleared, returned>>
    /\ Goto(t, "gp_pick")
    /\ UNCHANGED <<valVars, schedVars, now, wake, limVars, proxies, index_read, current_index, got, fetchVars>>

\* a pick that ignores the cursor
PickFirst(av, idx) == av[1]

\* line 211: available_proxies[self.current_index % len(available_proxies)]
PickRoute(av, idx) == av[(idx % Len(av)) + 1]

\* lines 210-211 and 215: pick the route under the cursor
get_proxy_pick(t) ==
    /\ pc[t] = "gp_pick"
    /\ IF available[t] # <<>>
       THEN /\ got' = [got EXCEPT ![t] = PickRoute(available[t], current_index)]
            /\ Goto(t, "gp_load")
            /\ UNCHANGED passed
       ELSE /\ got' = [got EXCEPT ![t] = None]
            /\ RouteReturns(t)
            /\ Return(t)
    /\ UNCHANGED <<valVars, schedVars, now, wake, limVars, proxies, current_index, failed_proxies,
                   available, cleared, returned, index_read, attempt, requests, result, outcome, failed_route, failed_at>>

\* line 212, self.current_index += 1: the field is read
get_proxy_load(t) ==
    /\ pc[t] = "gp_load"
    /\ index_read' = [index_read EXCEPT ![t] = current_index]
    /\ Goto(t, "gp_inc")
    /\ UNCHANGED <<valVars, schedVars, now, wake, limVars, proxies, current_index, failed_proxies, available,
                   got, cleared, returned, fetchVars>>

\* lines 212-213: the sum is stored in self.current_index; return proxy
get_proxy_advance(t) ==
    /\ pc[t] = "gp_inc"
    /\ current_index' = index_read[t] + 1
    /\ returned' = Append(returned, got[t])
    /\ RouteReturns(t)
    /\ Return(t)
    /\ UNCHANGED <<valVars, schedVars, now, wake, limVars, proxies, index_read, failed_proxies, available, got,
                   cleared, attempt, requests, result, outcome, failed_route, failed_at>>

get_proxy(t) == \/ get_proxy_empty(t)
                \/ get_proxy_available(t)
                \/ get_proxy_reset(t)
                \/ get_proxy_pick(t)
                \/ get_proxy_load(t)
                \/ get_proxy_advance(t)

\* lines 217-219: self.failed_proxies.add(proxy)
mark_failed(t, proxy) ==
    /\ pc[t] = "idle"
    /\ failed_proxies' = failed_proxies \cup {proxy}
    /\ returned' = IF proxy \in failed_proxies THEN returned ELSE <<>>
    /\ UNCHANGED <<valVars, schedVars, now, threadVars, limVars, proxies, index_read, current_index, available,
                   got, cleared, fetchVars>>

\* a caller invokes proxy_manager.get_proxy() directly
CallGetProxy(t) ==
    /\ pc[t] = "idle"
    /\ current_index < MaxIndex
    /\ pc' = [pc EXCEPT ![t] = "gp_empty"]
    /\ ret' = [ret EXCEPT ![t] = "idle"]
    /\ UNCHANGED <<valVars, schedVars, now, wake, limVars, poolVars, fetchVars>>

(***************************************************************************)
(* BaseScraper.make_request()                                              *)
(***************************************************************************)
RetryableStatus == {429, 503, 502, 504}
StatusCodes == {200, 404, 500} \cup RetryableStatus
\* requests.exceptions.RequestException: the request produced no response
RequestException == 0
\* what session.request does: a response with a status code, or a
\* requests.exceptions.RequestException
Outcomes == StatusCodes \cup {RequestException}

\* lines 96-97, entry of make_request
CallMakeRequest(t) ==
    /\ pc[t] = "idle"
    /\ attempt' = [attempt EXCEPT ![t] = 0]
    /\ requests' = [requests EXCEPT ![t] = 0]
    /\ result' = [result EXCEPT ![t] = "pending"]
    /\ outcome' = [outcome EXCEPT ![t] = RequestException]
    /\ failed_route' = [failed_route EXCEPT ![t] = "unset"]
    /\ failed_at' = [failed_at EXCEPT ![t] = 0]
    /\ passed' = [passed EXCEPT ![t] = [waits |-> 0, routes |-> 0]]
    /\ pc' = [pc EXCEPT ![t] = "mr_loop"]
    /\ ret' = [ret EXCEPT ![t] = "idle"]
    /\ UNCHANGED <<valVars, schedVars, now, wake, limVars, poolVars>>

\* a loop that runs one time too many
AttemptRangeOneMore == 0..(max_retries + 1)

\* range(self.retry_config['max_retries'] + 1)
AttemptRange == 0..max_retries

\* an attempt that goes to the pool without the call of wait
NoRateGate == "mr_proxy"

\* line 102: self.rate_limiter.wait(), the entry of wait()
RateGate == "w_time"

\* line 99 (loop head) with line 102 (the call of wait), and lines 140-141
make_request_loop(t) ==
    /\ pc[t] = "mr_loop"
    /\ IF attempt[t] \in AttemptRange
       THEN /\ pc' = [pc EXCEPT ![t] = RateGate]
            /\ ret' = [ret EXCEPT ![t] = "mr_proxy"]
            /\ UNCHANGED result
       ELSE /\ result' = [result EXCEPT ![t] = None]
            /\ pc' = [pc EXCEPT ![t] = "idle"]
            /\ UNCHANGED ret
    /\ UNCHANGED <<valVars, schedVars, now, wake, limVars, poolVars, attempt, requests, outcome,
                   failed_route, failed_at, passed>>

\* line 105: proxy = self.proxy_manager.get_proxy()
make_request_proxy(t) ==
    /\ pc[t] = "mr_proxy"
    /\ pc' = [pc EXCEPT ![t] = "gp_empty"]
    /\ ret' = [ret EXCEPT ![t] = "mr_request"]
    /\ UNCHANGED <<valVars, schedVars, now, wake, limVars, poolVars, fetchVars>>

\* lines 126-127 and 136-137: the backoff sleep of a failed attempt
BackoffDelays(o, a) ==
    IF o \in RetryableStatus
    THEN {Min(Pow(backoff_factor, a) * u, max_delay) : u \in backoff_lo..backoff_hi}
    ELSE {Min(Pow(backoff_factor, a), max_delay)}

\* no status counts as success
SuccessNever(o) == FALSE

\* line 119: response.status_code == 200
Success(o) == o = 200

\* every outcome is retried
RetryableAny(o) == TRUE

\* lines 122 and 133: a status of the retry list, or a RequestException
Retryable(o) == o \in RetryableStatus \cup {RequestException}

\* the last attempt is followed by a backoff too
AttemptsRemainAlways(a) == TRUE

\* lines 125 and 135: attempt < self.retry_config['max_retries']
AttemptsRemain(a) == a < max_retries

\* lines 109-138: the request is issued and its outcome handled
make_request_send(t) ==
    /\ pc[t] = "mr_request"
    /\ requests' = [requests EXCEPT ![t] = @ + 1]
    /\ \E o \in Outcomes :
        /\ outcome' = [outcome EXCEPT ![t] = o]
        /\ IF Success(o)
           THEN \* lines 119-121
                /\ result' = [result EXCEPT ![t] = "response"]
                /\ pc' = [pc EXCEPT ![t] = "idle"]
                /\ UNCHANGED <<wake, attempt, failed_route, failed_at>>
           ELSE IF Retryable(o)
           THEN \* lines 122-128 and 133-138; mark_failed is not called
                /\ failed_route' = [failed_route EXCEPT ![t] = got[t]]
                /\ failed_at' = [failed_at EXCEPT ![t] = now]
                /\ IF AttemptsRemain(attempt[t])
                   THEN /\ \E d \in BackoffDelays(o, attempt[t]) :
                              wake' = [wake EXCEPT ![t] = now + d]
                        /\ pc' = [pc EXCEPT ![t] = "mr_backoff"]
                        /\ UNCHANGED attempt
                   ELSE \* falls out of the if: next iteration of the loop
                        /\ attempt' = [attempt EXCEPT ![t] = @ + 1]
                        /\ pc' = [pc EXCEPT ![t] = "mr_loop"]
                        /\ UNCHANGED wake
                /\ UNCHANGED result
           ELSE \* lines 129-131
                /\ result' = [result EXCEPT ![t] = None]
                /\ pc' = [pc EXCEPT ![t] = "idle"]
                /\ UNCHANGED <<wake, attempt, failed_route, failed_at>>
    /\ UNCHANGED <<valVars, schedVars, now, ret, limVars, poolVars, passed>>

\* lines 128 and 138: time.sleep returns; continue
make_request_continue(t) ==
    /\ pc[t] = "mr_backoff"
    /\ now >= wake[t]
    /\ attempt' = [attempt EXCEPT ![t] = @ + 1]
    /\ Goto(t, "mr_loop")
    /\ UNCHANGED <<valVars, schedVars, now, wake, limVars, poolVars, requests, result, outcome,
                   failed_route, failed_at, passed>>

make_request(t) == \/ make_request_loop(t)
                   \/ make_request_proxy(t)
                   \/ make_request_send(t)
                   \/ make_request_continue(t)

(***************************************************************************)
(* DataValidator: the tables of known values (strings are tuples of        *)
(* characters).                                                            *)
(***************************************************************************)
\* self.valid_makes, validator.py lines 38-44
valid_makes == {
    <<"T", "o", "y", "o", "t", "a">>,
    <<"H", "o", "n", "d", "a">>,
    <<"N", "i", "s", "s", "a", "n">>,
    <<"S", "u", "b", "a", "r", "u">>,
    <<"M", "i", "t", "s", "u", "b", "i", "s", "h", "i">>,
    <<"M", "a", "z", "d", "a">>,
    <<"L", "e", "x", "u", "s">>,
    <<"A", "c", "u", "r", "a">>,
    <<"I", "n", "f", "i", "n", "i", "t", "i">>,
    <<"B", "M", "W">>,
    <<"M", "e", "r", "c", "e", "d", "e", "s", "-", "B", "e", "n", "z">>,
    <<"A", "u", "d", "i">>,
    <<"V", "o", "l", "k", "s", "w", "a", "g", "e", "n">>,
    <<"P", "o", "r", "s", "c", "h", "e">>,
    <<"V", "o", "l", "v", "o">>,
    <<"J", "a", "g", "u", "a", "r">>,
    <<"L", "a", "n", "d", " ", "R", "o", "v", "e", "r">>,
    <<"F", "o", "r", "d">>,
    <<"C", "h", "e", "v", "r", "o", "l", "e", "t">>,
    <<"D", "o", "d", "g", "e">>,
    <<"C", "h", "r", "y", "s", "l", "e", "r">>,
    <<"J", "e", "e", "p">>,
    <<"C", "a", "d", "i", "l", "l", "a", "c">>,
    <<"B", "u", "i", "c", "k">>,
    <<"G", "M", "C">>,
    <<"L", "i", "n", "c", "o", "l", "n">>,
    <<"F", "e", "r", "r", "a", "r", "i">>,
    <<"L", "a", "m", "b", "o", "r", "g", "h", "i", "n", "i">>,
    <<"M", "c", "L", "a", "r", "e", "n">>,
    <<"A", "s", "t", "o", "n", " ", "M", "a", "r", "t", "i", "n">>,
    <<"B", "e", "n", "t", "l", "e", "y">>,
    <<"R", "o", "l", "l", "s", "-", "R", "o", "y", "c", "e">>,
    <<"M", "a", "s", "e", "r", "a", "t", "i">>,
    <<"H", "y", "u", "n", "d", "a", "i">>,
    <<"K", "i", "a">>,
    <<"G", "e", "n", "e", "s", "i", "s">>,
    <<"T", "e", "s", "l", "a">>,
    <<"P", "o", "l", "e", "s", "t", "a", "r">>,
    <<"L", "u", "c", "i", "d">>,
    <<"R", "i", "v", "i", "a", "n">>
}

\* self.valid_countries, lines 46-50
valid_countries == {
    <<"U", "n", "i", "t", "e", "d", " ", "S", "t", "a", "t", "e", "s">>,
    <<"C", "a", "n", "a", "d", "a">>,
    <<"U", "n", "i", "t", "e", "d", " ", "K", "i", "n", "g", "d", "o", "m">>,
    <<"A", "u", "s", "t", "r", "a", "l", "i", "a">>,
    <<"N", "e", "w", " ", "Z", "e", "a", "l", "a", "n", "d">>,
    <<"J", "a", "p", "a", "n">>,
    <<"G", "e", "r", "m", "a", "n", "y">>,
    <<"F", "r", "a", "n", "c", "e">>,
    <<"I", "t", "a", "l", "y">>,
    <<"S", "p", "a", "i", "n">>,
    <<"N", "e", "t", "h", "e", "r", "l", "a", "n", "d", "s">>,
    <<"B", "e", "l", "g", "i", "u", "m">>,
    <<"E", "u", "r", "o", "p", "e", "a", "n", " ", "U", "n", "i", "o", "n">>,
    <<"S", "w", "e", "d", "e", "n">>,
    <<"N", "o", "r", "w", "a", "y">>,
    <<"D", "e", "n", "m", "a", "r", "k">>,
    <<"F", "i", "n", "l", "a", "n", "d">>,
    <<"S", "w", "i", "t", "z", "e", "r", "l", "a", "n", "d">>
}

\* self.regulatory_authorities, lines 52-55 (the two non-ASCII characters of the
\* tenth entry are written "A~" and "oe")
regulatory_authorities == {
    <<"N", "H", "T", "S", "A">>,
    <<"E", "P", "A">>,
    <<"D", "O", "T">>,
    <<"T", "r", "a", "n", "s", "p", "o", "r", "t", " ", "C", "a", "n", "a", "d", "a">>,
    <<"D", "V", "L", "A">>,
    <<"A", "u", "s", "t", "r", "a", "l", "i", "a", "n", " ", "B", "o", "r", "d", "e", "r", " ", "F", "o", "r", "c", "e">>,
    <<"T", "r", "a", "n", "s", "p", "o", "r", "t", " ", "f", "o", "r", " ", "N", "S", "W">>,
    <<"V", "i", "c", "R", "o", "a", "d", "s">>,
    <<"E", "u", "r", "o", "p", "e", "a", "n", " ", "C", "o", "m", "m", "i", "s", "s", "i", "o", "n">>,
    <<"T", "A~", "oe", "V">>,
    <<"M", "O", "T">>
}

\* make_mappings, lines 326-343, as pairs <<key, value>>
make_mappings == {
    <<<<"t", "o", "y", "o", "t", "a">>,
      <<"T", "o", "y", "o", "t", "a">>>>,
    <<<<"h", "o", "n", "d", "a">>,
      <<"H", "o", "n", "d", "a">>>>,
    <<<<"n", "i", "s", "s", "a", "n">>,
      <<"N", "i", "s", "s", "a", "n">>>>,
    <<<<"b", "m", "w">>,
      <<"B", "M", "W">>>>,
    <<<<"m", "e", "r", "c", "e", "d", "e", "s">>,
      <<"M", "e", "r", "c", "e", "d", "e", "s", "-", "B", "e", "n", "z">>>>,
    <<<<"m", "e", "r", "c", "e", "d", "e", "s", "-", "b", "e", "n", "z">>,
      <<"M", "e", "r", "c", "e", "d", "e", "s", "-", "B", "e", "n", "z">>>>,
    <<<<"a", "u", "d", "i">>,
      <<"A", "u", "d", "i">>>>,
    <<<<"v", "o", "l", "k", "s", "w", "a", "g", "e", "n">>,
      <<"V", "o", "l", "k", "s", "w", "a", "g", "e", "n">>>>,
    <<<<"v", "w">>,
      <<"V", "o", "l", "k", "s", "w", "a", "g", "e", "n">>>>,
    <<<<"p", "o", "r", "s", "c", "h", "e">>,
      <<"P", "o", "r", "s", "c", "h", "e">>>>,
    <<<<"f", "o", "r", "d">>,
      <<"F", "o", "r", "d">>>>,
    <<<<"c", "h", "e", "v", "r", "o", "l", "e", "t">>,
      <<"C", "h", "e", "v", "r", "o", "l", "e", "t">>>>,
    <<<<"c", "h", "e", "v", "y">>,
      <<"C", "h", "e", "v", "r", "o", "l", "e", "t">>>>,
    <<<<"s", "u", "b", "a", "r", "u">>,
      <<"S", "u", "b", "a", "r", "u">>>>,
    <<<<"m", "i", "t", "s", "u", "b", "i", "s", "h", "i">>,
      <<"M", "i", "t", "s", "u", "b", "i", "s", "h", "i">>>>,
    <<<<"m", "a", "z", "d", "a">>,
      <<"M", "a", "z", "d", "a">>>>
}

\* country_mappings, lines 357-370, as pairs <<key, value>>
country_mappings == {
    <<<<"u", "s", "a">>,
      <<"U", "n", "i", "t", "e", "d", " ", "S", "t", "a", "t", "e", "s">>>>,
    <<<<"u", "s">>,
      <<"U", "n", "i", "t", "e", "d", " ", "S", "t", "a", "t", "e", "s">>>>,
    <<<<"a", "m", "e", "r", "i", "c", "a">>,
      <<"U", "n", "i", "t", "e", "d", " ", "S", "t", "a", "t", "e", "s">>>>,
    <<<<"u", "k">>,
      <<"U", "n", "i", "t", "e", "d", " ", "K", "i", "n", "g", "d", "o", "m">>>>,
    <<<<"b", "r", "i", "t", "a", "i", "n">>,
      <<"U", "n", "i", "t", "e", "d", " ", "K", "i", "n", "g", "d", "o", "m">>>>,
    <<<<"e", "n", "g", "l", "a", "n", "d">>,
      <<"U", "n", "i", "t", "e", "d", " ", "K", "i", "n", "g", "d", "o", "m">>>>,
    <<<<"a", "u", "s", "t", "r", "a", "l", "i", "a">>,
      <<"A", "u", "s", "t", "r", "a", "l", "i", "a">>>>,
    <<<<"c", "a", "n", "a", "d", "a">>,
      <<"C", "a", "n", "a", "d", "a">>>>,
    <<<<"j", "a", "p", "a", "n">>,
      <<"J", "a", "p", "a", "n">>>>,
    <<<<"g", "e", "r", "m", "a", "n", "y">>,
      <<"G", "e", "r", "m", "a", "n", "y">>>>,
    <<<<"f", "r", "a", "n", "c", "e">>,
      <<"F", "r", "a", "n", "c", "e">>>>,
    <<<<"i", "t", "a", "l", "y">>,
      <<"I", "t", "a", "l", "y">>>>
}

\* valid_categories, line 173
valid_categories == {
    <<"p", "a", "s", "s", "e", "n", "g", "e", "r", "_", "c", "a", "r">>,
    <<"t", "r", "u", "c", "k">>,
    <<"m", "o", "t", "o", "r", "c", "y", "c", "l", "e">>,
    <<"s", "p", "e", "c", "i", "a", "l", "_", "v", "e", "h", "i", "c", "l", "e">>,
    <<"u", "n", "k", "n", "o", "w", "n">>
}

\* valid_statuses, line 222
valid_statuses == {
    <<"E", "l", "i", "g", "i", "b", "l", "e">>,
    <<"N", "o", "t", " ", "E", "l", "i", "g", "i", "b", "l", "e">>,
    <<"C", "o", "n", "d", "i", "t", "i", "o", "n", "a", "l">>,
    <<"R", "e", "q", "u", "i", "r", "e", "s", " ", "A", "s", "s", "e", "s", "s", "m", "e", "n", "t">>,
    <<"U", "n", "k", "n", "o", "w", "n">>
}

(***************************************************************************)
(* Python values.  Every value carries its type as its one field name:     *)
(* [none |-> TRUE], [str |-> <<characters>>], [int |-> n], [float |-> n]   *)
(* (a float without fractional part), [inf |-> TRUE] (float('inf')),       *)
(* [bool |-> b] and [dict |-> f] with f a function from keys to values.    *)
(***************************************************************************)
PyNone == [none |-> TRUE]
PyStr(s) == [str |-> s]
PyInt(n) == [int |-> n]
PyFloat(n) == [float |-> n]
PyInf == [inf |-> TRUE]
PyBool(b) == [bool |-> b]
PyDict(f) == [dict |-> f]
Kind(v) == CHOOSE k \in DOMAIN v : TRUE

\* bool(v): the truth value of v
Truthy(v) ==
    CASE Kind(v) = "none" -> FALSE
      [] Kind(v) = "str" -> Len(v.str) > 0
      [] Kind(v) = "int" -> v.int # 0
      [] Kind(v) = "float" -> v.float # 0
      [] Kind(v) = "inf" -> TRUE
      [] Kind(v) = "bool" -> v.bool
      [] Kind(v) = "dict" -> DOMAIN v.dict # {}

UpperCase == <<"A", "B", "C", "D", "E", "F", "G", "H", "I", "J", "K", "L", "M", "N", "O", "P", "Q", "R", "S", "T", "U", "V", "W", "X", "Y", "Z">>
LowerCase == <<"a", "b", "c", "d", "e", "f", "g", "h", "i", "j", "k", "l", "m", "n", "o", "p", "q", "r", "s", "t", "u", "v", "w", "x", "y", "z">>
DigitChars == <<"0", "1", "2", "3", "4", "5", "6", "7", "8", "9">>
Whitespace == {" ", "\t", "\n"}

DigitValues == [c \in {DigitChars[i] : i \in 1..10} |->
                   (CHOOSE i \in 1..10 : DigitChars[i] = c) - 1]
IsDigit(c) == c \in DOMAIN DigitValues
DigitValue(c) == DigitValues[c]
AllDigits(s) == \A i \in 1..Len(s) : IsDigit(s[i])

\* str.lower() and str.upper(), character by character
ToLower == [c \in {UpperCase[i] : i \in 1..26} |->
               LowerCase[CHOOSE i \in 1..26 : UpperCase[i] = c]]
ToUpper == [c \in {LowerCase[i] : i \in 1..26} |->
               UpperCase[CHOOSE i \in 1..26 : LowerCase[i] = c]]
LowerChar(c) == IF c \in DOMAIN ToLower THEN ToLower[c] ELSE c
UpperChar(c) == IF c \in DOMAIN ToUpper THEN ToUpper[c] ELSE c
RECURSIVE Lower(_)
Lower(s) == IF s = <<>> THEN <<>> ELSE <<LowerChar(Head(s))>> \o Lower(Tail(s))
RECURSIVE Upper(_)
Upper(s) == IF s = <<>> THEN <<>> ELSE <<UpperChar(Head(s))>> \o Upper(Tail(s))

\* str.strip()
RECURSIVE LStrip(_)
LStrip(s) == IF s # <<>> /\ Head(s) \in Whitespace THEN LStrip(Tail(s)) ELSE s
RECURSIVE RStrip(_)
RStrip(s) ==
    IF s # <<>> /\ s[Len(s)] \in Whitespace THEN RStrip(SubSeq(s, 1, Len(s) - 1)) ELSE s
Strip(s) == RStrip(LStrip(s))

\* a in b, for strings
IsSubstring(a, b) ==
    \E i \in 0..(Len(b) - Len(a)) : SubSeq(b, i + 1, i + Len(a)) = a

\* s.split(sep) for a one-character separator
RECURSIVE Split(_, _)
Split(s, sep) ==
    IF \A i \in 1..Len(s) : s[i] # sep THEN <<s>>
    ELSE LET k == CHOOSE i \in 1..Len(s) :
                      s[i] = sep /\ \A j \in 1..(i - 1) : s[j] # sep
         IN <<SubSeq(s, 1, k - 1)>> \o Split(SubSeq(s, k + 1, Len(s)), sep)

\* the number a string of digits denotes
RECURSIVE DigitsValue(_)
DigitsValue(s) ==
    IF s = <<>> THEN 0
    ELSE 10 * DigitsValue(SubSeq(s, 1, Len(s) - 1)) + DigitValue(s[Len(s)])

RECURSIVE NatToStr(_)
NatToStr(n) ==
    IF n < 10 THEN <<DigitChars[n + 1]>>
    ELSE NatToStr(n \div 10) \o <<DigitChars[(n % 10) + 1]>>
IntToStr(n) == IF n < 0 THEN <<"-">> \o NatToStr(0 - n) ELSE NatToStr(n)

\* str(v)
StrOf(v) ==
    CASE Kind(v) = "none" -> <<"N", "o", "n", "e">>
      [] Kind(v) = "str" -> v.str
      [] Kind(v) = "int" -> IntToStr(v.int)
      [] Kind(v) = "float" -> IntToStr(v.float) \o <<".", "0">>
      [] Kind(v) = "inf" -> <<"i", "n", "f">>
      [] Kind(v) = "bool" -> IF v.bool THEN <<"T", "r", "u", "e">>
                             ELSE <<"F", "a", "l", "s", "e">>
      [] Kind(v) = "dict" -> <<"{", "}">>

\* the text of an integer literal: optional sign, then digits
IsIntLiteral(s) ==
    LET body == IF s # <<>> /\ Head(s) \in {"+", "-"} THEN Tail(s) ELSE s
    IN body # <<>> /\ AllDigits(body)
IntLiteralValue(s) ==
    IF Head(s) = "-" THEN 0 - DigitsValue(Tail(s))
    ELSE IF Head(s) = "+" THEN DigitsValue(Tail(s))
    ELSE DigitsValue(s)

\* int(v): [ok |-> n], or [err |-> name of the exception raised]
IntOf(v) ==
    CASE Kind(v) = "none" -> [err |-> "TypeError"]
      [] Kind(v) = "str" -> IF IsIntLiteral(Strip(v.str))
                            THEN [ok |-> IntLiteralValue(Strip(v.str))]
                            ELSE [err |-> "ValueError"]
      [] Kind(v) = "int" -> [ok |-> v.int]
      [] Kind(v) = "float" -> [ok |-> v.float]
      [] Kind(v) = "inf" -> [err |-> "OverflowError"]
      [] Kind(v) = "bool" -> [ok |-> IF v.bool THEN 1 ELSE 0]
      [] Kind(v) = "dict" -> [err |-> "TypeError"]

\* float(v): [ok |-> n], [okinf |-> TRUE] for infinity, or [err |-> name].
\* Strings are read as integer literals: the inputs drawn have no
\* fractional part or exponent.
FloatOf(v) ==
    CASE Kind(v) = "none" -> [err |-> "TypeError"]
      [] Kind(v) = "str" -> IF IsIntLiteral(Strip(v.str))
                            THEN [ok |-> IntLiteralValue(Strip(v.str))]
                            ELSE [err |-> "ValueError"]
      [] Kind(v) = "int" -> [ok |-> v.int]
      [] Kind(v) = "float" -> [ok |-> v.float]
      [] Kind(v) = "inf" -> [okinf |-> TRUE]
      [] Kind(v) = "bool" -> [ok |-> IF v.bool THEN 1 ELSE 0]
      [] Kind(v) = "dict" -> [err |-> "TypeError"]

IsOk(r) == "ok" \in DOMAIN r
IsInf(r) == "okinf" \in DOMAIN r
IsErr(r) == "err" \in DOMAIN r
\* the float a successful float() produced, as a value
FloatValue(r) == IF IsInf(r) THEN PyInf ELSE PyFloat(r.ok)
\* r < n and r > n for the result of a successful float()
FloatLess(r, n) == IsOk(r) /\ r.ok < n
FloatGreater(r, n) == IsInf(r) \/ (IsOk(r) /\ r.ok > n)

(***************************************************************************)
(* DataValidator: the field checks.                                        *)
(***************************************************************************)
\* _validate_vin, lines 281-295: the characters [A-HJ-NPR-Z0-9]
VinChars ==
    {"A", "B", "C", "D", "E", "F", "G", "H", "J", "K", "L", "M", "N", "P", "R",
     "S", "T", "U", "V", "W", "X", "Y", "Z"} \cup {DigitChars[i] : i \in 1..10}

\* len(vin) of line 283
VinLength == 17

\* lines 287-293, on vin.upper()
VinCharsOk(upper) ==
    /\ \A i \in 1..Len(upper) : upper[i] \notin {"I", "O", "Q"}
    /\ \A i \in 1..Len(upper) : upper[i] \in VinChars

VinOfAnyLength(vin) ==
    /\ vin # <<>>
    /\ VinCharsOk(Upper(vin))

validate_vin(vin) ==
    /\ vin # <<>>
    /\ Len(vin) = VinLength
    /\ VinCharsOk(Upper(vin))

\* _validate_hts_code, lines 297-301: ^\d{4}(\.\d{2}){0,3}$
validate_hts_code(hts_code) ==
    LET parts == Split(hts_code, ".")
    IN /\ Len(parts) \in 1..4
       /\ Len(parts[1]) = 4 /\ AllDigits(parts[1])
       /\ \A i \in 2..Len(parts) : Len(parts[i]) = 2 /\ AllDigits(parts[i])

\* the calendar datetime.strptime checks a parsed date against
IsLeapYear(y) == (y % 4 = 0 /\ y % 100 # 0) \/ y % 400 = 0
DaysInMonth(y, m) ==
    IF m = 2 THEN (IF IsLeapYear(y) THEN 29 ELSE 28)
    ELSE IF m \in {4, 6, 9, 11} THEN 30 ELSE 31

\* a field of one or two digits with a value in lo..hi (%m, %d, %H, %M, %S)
ShortField(tok, lo, hi) ==
    /\ Len(tok) \in 1..2
    /\ AllDigits(tok)
    /\ DigitsValue(tok) \in lo..hi
\* %Y: four digits
YearField(tok) == Len(tok) = 4 /\ AllDigits(tok)

ValidDate(y, m, d) ==
    /\ YearField(y) /\ DigitsValue(y) >= 1
    /\ ShortField(m, 1, 12)
    /\ ShortField(d, 1, 31)
    /\ DigitsValue(d) <= DaysInMonth(DigitsValue(y), DigitsValue(m))

ValidTime(h, mi, s) ==
    /\ ShortField(h, 0, 23)
    /\ ShortField(mi, 0, 59)
    /\ ShortField(s, 0, 59)

\* strptime(s, '%Y-%m-%d')
MatchesYmd(s) ==
    LET p == Split(s, "-") IN Len(p) = 3 /\ ValidDate(p[1], p[2], p[3])
\* strptime(s, '%m/%d/%Y')
MatchesMdy(s) ==
    LET p == Split(s, "/") IN Len(p) = 3 /\ ValidDate(p[3], p[1], p[2])
\* strptime(s, '%d/%m/%Y')
MatchesDmy(s) ==
    LET p == Split(s, "/") IN Len(p) = 3 /\ ValidDate(p[3], p[2], p[1])
\* strptime(s, '%Y-%m-%d %H:%M:%S'): the two parts are separated by spaces
MatchesYmdHms(s) ==
    LET halves == Split(s, " ")
        words == SelectSeq(halves, LAMBDA w : w # <<>>)
    IN /\ Len(words) = 2
       /\ halves[1] # <<>> /\ halves[Len(halves)] # <<>>
       /\ MatchesYmd(words[1])
       /\ LET t == Split(words[2], ":")
          IN Len(t) = 3 /\ ValidTime(t[1], t[2], t[3])

\* _validate_date, lines 303-314
validate_date(date_str) ==
    LET s == StrOf(date_str)
    IN MatchesYmd(s) \/ MatchesMdy(s) \/ MatchesDmy(s) \/ MatchesYmdHms(s)

\* the text of no match
NoMatch == <<>>

\* the values get(key) returns from a table of pairs, NoMatch without the key
MappingGet(mapping, key) ==
    IF \E p \in mapping : p[1] = key
    THEN (CHOOSE p \in mapping : p[1] = key)[2]
    ELSE NoMatch

\* the known values with their lower-case forms
valid_makes_lower == {<<Lower(k), k>> : k \in valid_makes}
valid_countries_lower == {<<Lower(k), k>> : k \in valid_countries}

\* lines 321-323 and 352-354: the known values the loop may return.  The
\* loop runs over a set: which of several matching values comes first is
\* the set's iteration order.
PartialMatches(known_lower, lower) ==
    {p[2] : p \in {q \in known_lower : IsSubstring(lower, q[1]) \/ IsSubstring(q[1], lower)}}

\* a partial match if there is one, else the mapped value (lines 345, 372)
MatchOrMapped(matches, mapping, lower) ==
    IF matches # {} THEN matches ELSE {MappingGet(mapping, lower)}

\* the values the search may return for a lower-cased text
ClosestTo(known_lower, mapping, lower) ==
    MatchOrMapped(PartialMatches(known_lower, lower), mapping, lower)

\* _find_closest_make, lines 316-345: the values it may return
find_closest_make(make) == ClosestTo(valid_makes_lower, make_mappings, Lower(make))

\* a search that knows no variations
PartialMatchOnly(country) ==
    MatchOrMapped(PartialMatches(valid_countries_lower, Lower(country)), {}, Lower(country))

\* _find_closest_country, lines 347-372: the values it may return
find_closest_country(country) ==
    ClosestTo(valid_countries_lower, country_mappings, Lower(country))

\* the quality score as a fraction n/d, d > 0
Fraction(n, d) == [n |-> n, d |-> d]
ScoreZero == Fraction(0, 1)
IsZeroScore(q) == q.n = 0

\* lines 379-393: the score of a record without errors.  1.0 - 0.1 *
\* len(warnings) is tenths/10; the completeness ratio multiplies it;
\* max(0.0, min(1.0, score)) clamps (the product never exceeds 1).
ScoreOfWarnings(data, warnings) ==
    LET total_fields == Cardinality(DOMAIN data)
        empty_fields == Cardinality({k \in DOMAIN data : ~Truthy(data[k])})
        tenths == 10 - Len(warnings)
        score == IF total_fields > 0
                 THEN Fraction(tenths * (total_fields - empty_fields),
                               10 * total_fields)
                 ELSE Fraction(tenths, 10)
    IN IF score.n <= 0 THEN ScoreZero ELSE score

\* the score with the early return of lines 376-377 left out
ScoreIgnoringErrors(data, errors, warnings) == ScoreOfWarnings(data, warnings)

\* _calculate_quality_score, lines 374-393
calculate_quality_score(data, errors, warnings) ==
    IF errors # <<>> THEN ScoreZero ELSE ScoreOfWarnings(data, warnings)

\* ValidationResult, lines 13-20
ValidationResult(is_valid, errors, warnings, quality_score, validated_data) ==
    [is_valid |-> is_valid, errors |-> errors, warnings |-> warnings,
     quality_score |-> quality_score, validated_data |-> validated_data]

\* an exception leaving a validation method
Raised(name) == [raised |-> name]
IsRaised(r) == "raised" \in DOMAIN r

\* the end of every validation method (lines 121-129, 182-190, 232-240,
\* 271-279); data is the mapping of the record
Finish(data, acc) ==
    IF acc.raised # "" THEN Raised(acc.raised)
    ELSE ValidationResult(Len(acc.errors) = 0, acc.errors, acc.warnings,
                          calculate_quality_score(data, acc.errors, acc.warnings),
                          PyDict(acc.vd))

\* a message: its text, the field it names and the values it quotes
Msg(text, field, args) == [text |-> text, field |-> field, args |-> args]

\* the locals of a validation method: errors, warnings, validated_data, and
\* the exception that left the method ("" while none has)
StartAcc(data) == [errors |-> <<>>, warnings |-> <<>>, vd |-> data, raised |-> ""]
AddError(acc, msg) == [acc EXCEPT !.errors = Append(@, msg)]
AddWarning(acc, msg) == [acc EXCEPT !.warnings = Append(@, msg)]
SetField(acc, k, v) == [acc EXCEPT !.vd = [x \in DOMAIN @ |-> IF x = k THEN v ELSE @[x]]]
Raise(acc, name) == [acc EXCEPT !.raised = name]
Has(data, k) == k \in DOMAIN data
\* except (ValueError, TypeError)
Caught == {"ValueError", "TypeError"}

\* the loop over required fields with the test `not data[field]`
RECURSIVE RequiredTruthy(_, _, _)
RequiredTruthy(data, fields, acc) ==
    IF fields = <<>> THEN acc
    ELSE RequiredTruthy(data, Tail(fields),
            IF ~Has(data, Head(fields)) \/ ~Truthy(data[Head(fields)])
            THEN AddError(acc, Msg("Missing required field", Head(fields), <<>>))
            ELSE acc)

\* the loop over required fields with the test `data[field] is None`
RECURSIVE RequiredNotNone(_, _, _)
RequiredNotNone(data, fields, acc) ==
    IF fields = <<>> THEN acc
    ELSE RequiredNotNone(data, Tail(fields),
            IF ~Has(data, Head(fields)) \/ data[Head(fields)] = PyNone
            THEN AddError(acc, Msg("Missing required field", Head(fields), <<>>))
            ELSE acc)

\* self.required_fields, lines 30-35
required_fields ==
    [vehicle |-> <<"make", "model">>,
     duty_rate |-> <<"country", "duty_rate_percent">>,
     import_eligibility |-> <<"country_destination", "regulatory_authority">>,
     timeline_data |-> <<"process_step", "estimated_duration_days">>]

(***************************************************************************)
(* DataValidator: the four validation methods.  Each check takes the       *)
(* locals of the method and returns them updated; a check is skipped once  *)
(* an exception has left the method.                                       *)
(***************************************************************************)
\* datetime.now().year
current_year == 2026

\* the text of the field a known-value check looks at
FieldText(data, field) == Strip(StrOf(data[field]))

\* whether the check of the field looks for a close match
NeedsClose(data, field, known) ==
    Has(data, field) /\ FieldText(data, field) \notin known

\* a known-value check that rejects the values it cannot correct
CheckKnownStrict(data, acc, field, known, close, unknown_text) ==
    IF acc.raised # "" \/ ~Has(data, field) THEN acc
    ELSE LET text == FieldText(data, field)
         IN IF text \in known THEN acc
            ELSE IF close # NoMatch
            THEN SetField(AddWarning(acc, Msg("corrected", field, <<PyStr(text), PyStr(close)>>)),
                          field, PyStr(close))
            ELSE AddError(acc, Msg(unknown_text, field, <<PyStr(text)>>))

\* a known-value check with correction (lines 68-78, 142-151, 203-212);
\* close is the value _find_closest_* returned
CheckKnown(data, acc, field, known, close, unknown_text) ==
    IF acc.raised # "" \/ ~Has(data, field) THEN acc
    ELSE LET text == FieldText(data, field)
         IN IF text \in known THEN acc
            ELSE IF close # NoMatch
            THEN SetField(AddWarning(acc, Msg("corrected", field, <<PyStr(text), PyStr(close)>>)),
                          field, PyStr(close))
            ELSE AddWarning(acc, Msg(unknown_text, field, <<PyStr(text)>>))

\* lines 80-84
CheckModel(data, acc) ==
    IF acc.raised # "" \/ ~Has(data, "model") THEN acc
    ELSE LET model == Strip(StrOf(data["model"]))
         IN IF model = <<>> \/ Lower(model) = <<"u", "n", "k", "n", "o", "w", "n">>
            THEN AddWarning(acc, Msg("Model information is missing or unknown", "model", <<>>))
            ELSE acc

\* lines 86-99
CheckYear(data, acc) ==
    IF acc.raised # "" \/ ~Has(data, "year") \/ ~Truthy(data["year"]) THEN acc
    ELSE LET r == IntOf(data["year"])
         IN IF IsErr(r)
            THEN IF r.err \in Caught
                 THEN AddError(acc, Msg("Invalid year format", "year", <<data["year"]>>))
                 ELSE Raise(acc, r.err)
            ELSE SetField(
                   IF r.ok < 1900 \/ r.ok > current_year + 2
                   THEN AddError(acc, Msg("Invalid year", "year", <<data["year"]>>))
                   ELSE IF r.ok < 1980
                   THEN AddWarning(acc, Msg("Very old vehicle year", "year", <<data["year"]>>))
                   ELSE acc,
                   "year", PyInt(r.ok))

\* lines 101-107
CheckVin(data, acc) ==
    IF acc.raised # "" \/ ~Has(data, "vin") \/ ~Truthy(data["vin"]) THEN acc
    ELSE LET vin == Strip(Upper(StrOf(data["vin"])))
         IN IF ~validate_vin(vin)
            THEN AddError(acc, Msg("Invalid VIN format", "vin", <<PyStr(vin)>>))
            ELSE SetField(acc, "vin", PyStr(vin))

\* lines 109-119
CheckPrice(data, acc) ==
    IF acc.raised # "" \/ ~Has(data, "price") \/ ~Truthy(data["price"]) THEN acc
    ELSE LET r == FloatOf(data["price"])
         IN IF IsErr(r)
            THEN AddError(acc, Msg("Invalid price format", "price", <<data["price"]>>))
            ELSE SetField(
                   IF FloatLess(r, 0)
                   THEN AddError(acc, Msg("Price cannot be negative", "price", <<>>))
                   ELSE IF FloatGreater(r, 10000000)
                   THEN AddWarning(acc, Msg("Unusually high price", "price", <<FloatValue(r)>>))
                   ELSE acc,
                   "price", FloatValue(r))

\* validate_vehicle_data, lines 57-129: the results it may return
validate_vehicle_data(record) ==
    IF Kind(record) # "dict" THEN {Raised("AttributeError")}
    ELSE LET data == record.dict
             a1 == RequiredTruthy(data, required_fields.vehicle, StartAcc(data))
         IN {Finish(data,
               CheckPrice(data, CheckVin(data, CheckYear(data, CheckModel(data,
                 CheckKnown(data, a1, "make", valid_makes, close, "Unknown make"))))))
             : close \in IF NeedsClose(data, "make", valid_makes)
                          THEN find_closest_make(FieldText(data, "make"))
                          ELSE {NoMatch}}

\* a duty rate check without the test of line 159
CheckDutyRateUncapped(data, acc) ==
    IF acc.raised # "" \/ ~Has(data, "duty_rate_percent") THEN acc
    ELSE LET r == FloatOf(data["duty_rate_percent"])
         IN IF IsErr(r)
            THEN AddError(acc, Msg("Invalid duty rate format", "duty_rate_percent",
                                   <<data["duty_rate_percent"]>>))
            ELSE SetField(
                   IF FloatLess(r, 0)
                   THEN AddError(acc, Msg("Duty rate cannot be negative", "duty_rate_percent", <<>>))
                   ELSE acc,
                   "duty_rate_percent", FloatValue(r))

\* lines 153-163
CheckDutyRate(data, acc) ==
    IF acc.raised # "" \/ ~Has(data, "duty_rate_percent") THEN acc
    ELSE LET r == FloatOf(data["duty_rate_percent"])
         IN IF IsErr(r)
            THEN AddError(acc, Msg("Invalid duty rate format", "duty_rate_percent",
                                   <<data["duty_rate_percent"]>>))
            ELSE SetField(
                   IF FloatLess(r, 0)
                   THEN AddError(acc, Msg("Duty rate cannot be negative", "duty_rate_percent", <<>>))
                   ELSE IF FloatGreater(r, 100)
                   THEN AddWarning(acc, Msg("Unusually high duty rate", "duty_rate_percent",
                                            <<FloatValue(r)>>))
                   ELSE acc,
                   "duty_rate_percent", FloatValue(r))

\* lines 165-169
CheckHtsCode(data, acc) ==
    IF acc.raised # "" \/ ~Has(data, "hts_code") \/ ~Truthy(data["hts_code"]) THEN acc
    ELSE LET hts_code == Strip(StrOf(data["hts_code"]))
         IN IF ~validate_hts_code(hts_code)
            THEN AddWarning(acc, Msg("Invalid HTS code format", "hts_code", <<PyStr(hts_code)>>))
            ELSE acc

\* lines 171-175
CheckVehicleCategory(data, acc) ==
    IF acc.raised # "" \/ ~Has(data, "vehicle_category") THEN acc
    ELSE IF data["vehicle_category"] \notin {PyStr(c) : c \in valid_categories}
    THEN AddWarning(acc, Msg("Unknown vehicle category", "vehicle_category",
                             <<data["vehicle_category"]>>))
    ELSE acc

\* lines 177-180
CheckEffectiveDate(data, acc) ==
    IF acc.raised # "" \/ ~Has(data, "effective_date") \/ ~Truthy(data["effective_date"])
    THEN acc
    ELSE IF ~validate_date(data["effective_date"])
    THEN AddError(acc, Msg("Invalid effective date", "effective_date",
                           <<data["effective_date"]>>))
    ELSE acc

\* validate_duty_rate_data, lines 131-190: the results it may return
validate_duty_rate_data(record) ==
    IF Kind(record) # "dict" THEN {Raised("AttributeError")}
    ELSE LET data == record.dict
             a1 == RequiredNotNone(data, required_fields.duty_rate, StartAcc(data))
         IN {Finish(data,
               CheckEffectiveDate(data, CheckVehicleCategory(data, CheckHtsCode(data,
                 CheckDutyRate(data,
                   CheckKnown(data, a1, "country", valid_countries, close, "Unknown country"))))))
             : close \in IF NeedsClose(data, "country", valid_countries)
                          THEN find_closest_country(FieldText(data, "country"))
                          ELSE {NoMatch}}

\* lines 214-218
CheckAuthority(data, acc) ==
    IF acc.raised # "" \/ ~Has(data, "regulatory_authority") THEN acc
    ELSE LET authority == Strip(StrOf(data["regulatory_authority"]))
         IN IF authority \notin regulatory_authorities
            THEN AddWarning(acc, Msg("Unknown regulatory authority", "regulatory_authority",
                                     <<PyStr(authority)>>))
            ELSE acc

\* lines 220-225
CheckEligibilityStatus(data, acc) ==
    IF acc.raised # "" \/ ~Has(data, "eligibility_status") THEN acc
    ELSE LET status == Strip(StrOf(data["eligibility_status"]))
         IN IF status \notin valid_statuses
            THEN AddWarning(acc, Msg("Unknown eligibility status", "eligibility_status",
                                     <<PyStr(status)>>))
            ELSE acc

\* lines 227-230
CheckTwentyFiveYearRule(data, acc) ==
    IF /\ acc.raised = ""
       /\ Has(data, "country_destination")
       /\ data["country_destination"] =
              PyStr(<<"U", "n", "i", "t", "e", "d", " ", "S", "t", "a", "t", "e", "s">>)
       /\ Has(data, "twenty_five_year_rule")
       /\ Kind(data["twenty_five_year_rule"]) # "bool"
    THEN AddError(acc, Msg("25-year rule field must be boolean", "twenty_five_year_rule", <<>>))
    ELSE acc

\* validate_import_eligibility_data, lines 192-240: the results it may return
validate_import_eligibility_data(record) ==
    IF Kind(record) # "dict" THEN {Raised("AttributeError")}
    ELSE LET data == record.dict
             a1 == RequiredTruthy(data, required_fields.import_eligibility, StartAcc(data))
         IN {Finish(data,
               CheckTwentyFiveYearRule(data, CheckEligibilityStatus(data, CheckAuthority(data,
                 CheckKnown(data, a1, "country_destination", valid_countries, close,
                            "Unknown destination country")))))
             : close \in IF NeedsClose(data, "country_destination", valid_countries)
                          THEN find_closest_country(FieldText(data, "country_destination"))
                          ELSE {NoMatch}}

\* lines 253-263
CheckDuration(data, acc) ==
    IF acc.raised # "" \/ ~Has(data, "estimated_duration_days") THEN acc
    ELSE LET r == IntOf(data["estimated_duration_days"])
         IN IF IsErr(r)
            THEN IF r.err \in Caught
                 THEN AddError(acc, Msg("Invalid duration format", "estimated_duration_days",
                                        <<data["estimated_duration_days"]>>))
                 ELSE Raise(acc, r.err)
            ELSE SetField(
                   IF r.ok < 0
                   THEN AddError(acc, Msg("Duration cannot be negative",
                                          "estimated_duration_days", <<>>))
                   ELSE IF r.ok > 730
                   THEN AddWarning(acc, Msg("Unusually long duration",
                                            "estimated_duration_days", <<PyInt(r.ok)>>))
                   ELSE acc,
                   "estimated_duration_days", PyInt(r.ok))

\* lines 265-269
CheckProcessStep(data, acc) ==
    IF acc.raised # "" \/ ~Has(data, "process_step") THEN acc
    ELSE IF Strip(StrOf(data["process_step"])) = <<>>
    THEN AddError(acc, Msg("Process step cannot be empty", "process_step", <<>>))
    ELSE acc

\* validate_timeline_data, lines 242-279: the results it may return
validate_timeline_data(record) ==
    IF Kind(record) # "dict" THEN {Raised("AttributeError")}
    ELSE LET data == record.dict
             a1 == RequiredTruthy(data, required_fields.timeline_data, StartAcc(data))
         IN {Finish(data, CheckProcessStep(data, CheckDuration(data, a1)))}

\* validation_methods, lines 399-404
DataTypes == {"vehicle", "duty_rate", "import_eligibility", "timeline_data"}
validate_method(dt, record) ==
    CASE dt = "vehicle" -> validate_vehicle_data(record)
      [] dt = "duty_rate" -> validate_duty_rate_data(record)
      [] dt = "import_eligibility" -> validate_import_eligibility_data(record)
      [] dt = "timeline_data" -> validate_timeline_data(record)

\* an exception handler that drops the record
on_exception_drop(results, record, exc) == results

\* lines 414-422: the result recorded for a record whose validation raised
on_exception(results, record, exc) ==
    Append(results,
           ValidationResult(FALSE, <<Msg("Validation error", "", <<PyStr(<<exc>>)>>)>>,
                            <<>>, ScoreZero, record))

\* lines 410-422: the result lists the loop may build, from `results` on
RECURSIVE validate_each(_, _, _)
validate_each(dt, records, results) ==
    IF records = <<>> THEN {results}
    ELSE UNION {validate_each(dt, Tail(records),
                   IF IsRaised(r) THEN on_exception(results, Head(records), r.raised)
                   ELSE Append(results, r))
                : r \in validate_method(dt, Head(records))}

\* validate_batch, lines 395-424: Raised("ValueError") for an unknown type,
\* else [results |-> the list returned]
LookupPerRecord(records, dt) ==
    IF dt \notin DataTypes
    THEN (IF records = <<>> THEN {[results |-> <<>>]} ELSE {Raised("ValueError")})
    ELSE {[results |-> rs] : rs \in validate_each(dt, records, <<>>)}

validate_batch(records, dt) ==
    IF dt \notin DataTypes THEN {Raised("ValueError")}
    ELSE {[results |-> rs] : rs \in validate_each(dt, records, <<>>)}

\* a field left out of a record
Absent == [absent |-> TRUE]

\* the dict with the fields chosen by f (a value or Absent per field)
DictOf(f) == PyDict([k \in {x \in DOMAIN f : f[x] # Absent} |-> f[k]])

(***************************************************************************)
(* ImportIQScheduler.  Executor 0 is the thread that calls the public      *)
(* operations; executors 1..MaxLoops are the threads start() creates.      *)
(***************************************************************************)
\* threads start() may create
MaxLoops == 2
\* calls of public operations
MaxCalls == 2
\* job runs started
MaxRuns == 2
\* times a scheduled job becomes due
MaxDue == 2

Main == 0
Loops == 1..MaxLoops
Executors == {Main} \cup Loops

\* self.scrapers, lines 39-44
ScraperNames ==
    {"import_eligibility", "customs_duty_rates", "government_auctions", "insurance_auctions"}
\* a name run_manual_job may get that is no key of self.scrapers
UnknownName == "unknown_job"

\* setup_schedules, lines 106-156: the jobs it adds, in order
Installed(config) ==
    (IF "import_eligibility" \in config THEN <<"import_eligibility">> ELSE <<>>)
    \o (IF "customs_duty_rates" \in config THEN <<"customs_duty_rates">> ELSE <<>>)
    \o (IF "government_auctions" \in config
        THEN <<"government_auctions", "government_auctions", "government_auctions">>
        ELSE <<>>)
    \o (IF "insurance_auctions" \in config
        THEN <<"insurance_auctions", "insurance_auctions", "insurance_auctions">>
        ELSE <<>>)
    \o <<"health_check", "daily_report">>

\* a job object of the schedule library
Job(id, name) == [id |-> id, name |-> name]
NoJob == Job(0, "")

\* self.stats, lines 47-54; last_run_time 0 is None
InitialStats ==
    [total_runs |-> 0, successful_runs |-> 0, failed_runs |-> 0,
     total_records_scraped |-> 0, last_run_time |-> 0]

\* the three run counters of the statistics
Counters(s) == <<s.total_runs, s.successful_runs, s.failed_runs>>

\* the locals of an executor
InitialFrame ==
    [scraper_type |-> "", start_time |-> 0,
     validation_results |-> <<>>, valid_records |-> <<>>, tmp |-> 0,
     runnable |-> <<>>, job |-> NoJob]

\* observation of the run an executor is in, and of the last run it completed
\* completed: where an exception it met came from, by how much its own
\* writes changed total_runs, successful_runs and failed_runs, and whether
\* an exception left it; how it ended ("" while it has not, "success",
\* "failure" for the except block, "escaped"), and whether it logged the
\* critical alert of line 216; how many records it handed to the sink, by
\* how much its own write changed total_records_scraped, and whether it set
\* last_run_time
NoRun ==
    [origin |-> "", effect |-> <<0, 0, 0>>, escaped |-> FALSE,
     ended |-> "", alert |-> FALSE,
     persisted |-> 0, records |-> 0, stamped |-> FALSE]

JobLabels ==
    {"j_scrape", "j_store", "j_records", "j_records_w",
     "j_total", "j_total_w", "j_succ", "j_succ_w", "j_last",
     "h_total", "h_total_w", "h_failed", "h_failed_w"}
ReportLabels == {"r_report", "r_total", "r_succ", "r_failed", "r_records"}

\* executor e is inside _run_scraper_job / _generate_daily_report
InJob(e) == spc[e] \in JobLabels
InReport(e) == spc[e] \in ReportLabels
Busy(e) == InJob(e) \/ InReport(e)

\* where an executor continues when the function it runs returns
Continuation(e) == IF e = Main THEN "idle" ELSE "l_ran"
\* where it ends up when an exception leaves that function
Crash(e) == IF e = Main THEN "idle" ELSE "crashed"

SGoto(e, l) == spc' = [spc EXCEPT ![e] = l]
SetFrame(e, f) == frame' = [frame EXCEPT ![e] = f]

\* _get_default_config, lines 67-79: every job enabled
get_default_config == ScraperNames

\* the configurations a file may hold: the jobs it enables
Configs == {{"import_eligibility"}, {"import_eligibility", "customs_duty_rates"}}

\* what config_path may point at: a file that parses, no file, or a file
\* yaml.safe_load rejects
ConfigFile(kind, names) == [kind |-> kind, jobs |-> names]
ConfigFiles ==
    {ConfigFile("file", names) : names \in Configs}
        \cup {ConfigFile("missing", {}), ConfigFile("unparsable", {})}

\* __init__ assigns self.logger (line 32) after it has called _load_config
\* (line 31)
LoggerAssignedFirst == FALSE

\* _load_config, lines 55-65, called while self.logger is or is not yet
\* assigned: the configuration returned or the exception raised
load_config(file, logger) ==
    IF file.kind = "file" THEN [raised |-> "", config |-> file.jobs]
    ELSE IF logger THEN [raised |-> "", config |-> get_default_config]
    ELSE [raised |-> "AttributeError", config |-> {}]

\* the fields of a scheduler on which no operation has been called
NewScheduler ==
    /\ is_running = FALSE
    /\ thread = 0
    /\ jobs = <<>>
    /\ due = {}
    /\ stats = InitialStats
    /\ spc = [e \in Executors |-> IF e = Main THEN "idle" ELSE "unborn"]
    /\ frame = [e \in Executors |-> InitialFrame]
    /\ run = [e \in Executors |-> NoRun]
    /\ done = [e \in Executors |-> NoRun]
    /\ stored = <<>>
    /\ report = <<>>
    /\ last_status = <<>>
    /\ ctr = [calls |-> 0, runs |-> 0, started |-> 0, dues |-> 0, jobs |-> 0,
              starts_returned |-> 0, stops |-> 0, stopped |-> FALSE]

\* the scheduler constructed from a file that enables the jobs of config
InitScheduler(config) ==
    /\ config_path = ConfigFile("file", config)
    /\ constructed = "yes"
    /\ enabled = config
    /\ NewScheduler

\* the constructor has not run yet and config_path points at file
Unconstructed(file) ==
    /\ config_path = file
    /\ constructed = "no"
    /\ enabled = {}
    /\ NewScheduler

\* __init__, lines 29-53
construct ==
    /\ constructed = "no"
    /\ LET loaded == load_config(config_path, LoggerAssignedFirst)
       IN IF loaded.raised = ""
          THEN constructed' = "yes" /\ enabled' = loaded.config
          ELSE constructed' = loaded.raised /\ UNCHANGED enabled
    /\ UNCHANGED <<scraperVars, valVars, config_path, is_running, thread, jobs, due,
                   stats, spc, frame, run, done, stored, report, last_status, ctr>>

\* the run of executor e ends: its observation is kept as the last run and
\* its locals are gone
EndRun(e, escaped) ==
    /\ done' = [done EXCEPT ![e] = [run[e] EXCEPT !.escaped = escaped,
                                                  !.ended = "success",
                                                  !.stamped = TRUE]]
    /\ run' = [run EXCEPT ![e] = NoRun]
    /\ SetFrame(e, [InitialFrame EXCEPT !.runnable = frame[e].runnable,
                                        !.job = frame[e].job])

\* the observation of the run of e after it wrote counter i (1 total_runs,
\* 2 successful_runs, 3 failed_runs)
Written(e, i) ==
    [run[e] EXCEPT !.effect[i] = @ + Counters(stats')[i] - Counters(stats)[i]]
Counted(e, i) == run' = [run EXCEPT ![e] = Written(e, i)]

\* line 209: except Exception
Handled(exc) == exc \in {"Exception", "ValueError"}

\* an exception leaves the try block of _run_scraper_job run by executor e
\* whose locals are f; runs holds the observations: line 209
Throw(e, name, origin, f, runs) ==
    IF Handled(name)
    THEN /\ SGoto(e, "h_total")
         /\ SetFrame(e, f)
         /\ run' = [runs EXCEPT ![e].origin = origin]
         /\ UNCHANGED done
    ELSE /\ SGoto(e, Crash(e))
         /\ SetFrame(e, [InitialFrame EXCEPT !.runnable = f.runnable, !.job = f.job])
         /\ run' = [runs EXCEPT ![e] = NoRun]
         /\ done' = [done EXCEPT ![e] = [runs[e] EXCEPT !.origin = origin,
                                                        !.escaped = TRUE,
                                                        !.ended = "escaped"]]

\* _run_scraper_job(scraper_type) is entered by executor e whose locals
\* are f, lines 158-171: the start time is taken, the configuration merged
\* and the scraper class looked up
EnterJob(e, name, f) ==
    LET g == [f EXCEPT !.scraper_type = name, !.start_time = ctr.started + 1]
        entered == [run EXCEPT ![e] = NoRun]
    IN IF name \notin ScraperNames
       THEN Throw(e, "ValueError", "lookup", g, entered)
       ELSE /\ SGoto(e, "j_scrape")
            /\ SetFrame(e, g)
            /\ run' = entered
            /\ UNCHANGED done

\* what a scraper may return as result.data: records of import eligibility
ScrapedRecord(authority) ==
    DictOf(("country_destination" :> PyStr(<<"J", "a", "p", "a", "n">>))
           @@ ("regulatory_authority" :> authority))
ScrapedLists ==
    {<<>>,
     <<ScrapedRecord(PyStr(<<>>))>>,
     <<ScrapedRecord(PyStr(<<"E", "P", "A">>)), ScrapedRecord(PyStr(<<>>)),
       ScrapedRecord(PyStr(<<"D", "O", "T">>))>>}

\* every result is taken, valid or not
AllRecords(results) == [i \in 1..Len(results) |-> results[i].validated_data]

\* lines 185-189: the validated_data of the valid results, in order
ValidRecords(results) ==
    LET valid == SelectSeq(results, LAMBDA r : r.is_valid)
    IN [i \in 1..Len(valid) |-> valid[i].validated_data]

\* lines 177-196: validation of the scraped records
Validated(e, scraped) ==
    IF scraped = <<>>
    THEN SGoto(e, "j_total") /\ UNCHANGED <<frame, run, done>>
    ELSE \E out \in validate_batch(scraped, frame[e].scraper_type) :
           IF IsRaised(out)
           THEN Throw(e, out.raised, "validator", frame[e], run)
           ELSE /\ SetFrame(e, [frame[e] EXCEPT
                                   !.validation_results = out.results,
                                   !.valid_records = ValidRecords(out.results)])
                /\ SGoto(e, IF ValidRecords(out.results) # <<>> THEN "j_store" ELSE "j_total")
                /\ UNCHANGED <<run, done>>

\* lines 173-196: the scraper is built and run; it raises, or it returns and
\* its records are validated
job_scrape(e) ==
    /\ spc[e] = "j_scrape"
    /\ \/ Throw(e, "Exception", "collector", frame[e], run)
       \/ \E scraped \in ScrapedLists : Validated(e, scraped)
    /\ UNCHANGED <<scraperVars, valVars, report, last_status, config_path, constructed, enabled, is_running, thread, jobs, due, stats, ctr, stored>>

\* lines 197-198: the valid records go to the sink and are counted
job_store(e) ==
    /\ \/ /\ spc[e] = "j_store"
          /\ stored' = <<frame[e].scraper_type, frame[e].valid_records,
                         frame[e].validation_results>>
          /\ run' = [run EXCEPT ![e].persisted = Len(frame[e].valid_records)]
          /\ SGoto(e, "j_records")
          /\ UNCHANGED <<frame, stats>>
       \/ /\ spc[e] = "j_records"
          /\ SetFrame(e, [frame[e] EXCEPT !.tmp = stats.total_records_scraped])
          /\ SGoto(e, "j_records_w")
          /\ UNCHANGED <<stored, stats, run>>
       \/ /\ spc[e] = "j_records_w"
          /\ stats' = [stats EXCEPT !.total_records_scraped =
                                        frame[e].tmp + Len(frame[e].valid_records)]
          /\ run' = [run EXCEPT ![e].records =
                          @ + stats'.total_records_scraped - stats.total_records_scraped]
          /\ SetFrame(e, [frame[e] EXCEPT !.tmp = 0])
          /\ SGoto(e, "j_total")
          /\ UNCHANGED stored
    /\ UNCHANGED <<scraperVars, valVars, report, last_status, config_path, constructed, enabled, is_running, thread, jobs, due, done, ctr>>

\* lines 201-207: the statistics of a run that did not raise
job_success(e) ==
    /\ \/ /\ spc[e] = "j_total"
          /\ SetFrame(e, [frame[e] EXCEPT !.tmp = stats.total_runs])
          /\ SGoto(e, "j_total_w")
          /\ UNCHANGED <<stats, run, done>>
       \/ /\ spc[e] = "j_total_w"
          /\ stats' = [stats EXCEPT !.total_runs = frame[e].tmp + 1]
          /\ Counted(e, 1)
          /\ SetFrame(e, [frame[e] EXCEPT !.tmp = 0])
          /\ SGoto(e, "j_succ")
          /\ UNCHANGED done
       \/ /\ spc[e] = "j_succ"
          /\ SetFrame(e, [frame[e] EXCEPT !.tmp = stats.successful_runs])
          /\ SGoto(e, "j_succ_w")
          /\ UNCHANGED <<stats, run, done>>
       \/ /\ spc[e] = "j_succ_w"
          /\ stats' = [stats EXCEPT !.successful_runs = frame[e].tmp + 1]
          /\ Counted(e, 2)
          /\ SetFrame(e, [frame[e] EXCEPT !.tmp = 0])
          /\ SGoto(e, "j_last")
          /\ UNCHANGED done
       \/ /\ spc[e] = "j_last"
          /\ stats' = [stats EXCEPT !.last_run_time = frame[e].start_time]
          /\ EndRun(e, FALSE)
          /\ SGoto(e, Continuation(e))
    /\ UNCHANGED <<scraperVars, valVars, report, last_status, config_path, constructed, enabled, is_running, thread, jobs, due, ctr, stored>>

\* monitoring.max_consecutive_failures of the configuration, line 292
max_consecutive_failures == 1

\* _check_consecutive_failures, lines 290-294: the threshold is read and
\* nothing is counted
check_consecutive_failures(scraper_type) == FALSE

\* lines 209-216: the statistics of a run that raised, and the alert
job_failure(e) ==
    /\ \/ /\ spc[e] = "h_total"
          /\ SetFrame(e, [frame[e] EXCEPT !.tmp = stats.total_runs])
          /\ SGoto(e, "h_total_w")
          /\ UNCHANGED <<stats, run, done>>
       \/ /\ spc[e] = "h_total_w"
          /\ stats' = [stats EXCEPT !.total_runs = frame[e].tmp + 1]
          /\ Counted(e, 1)
          /\ SetFrame(e, [frame[e] EXCEPT !.tmp = 0])
          /\ SGoto(e, "h_failed")
          /\ UNCHANGED done
       \/ /\ spc[e] = "h_failed"
          /\ SetFrame(e, [frame[e] EXCEPT !.tmp = stats.failed_runs])
          /\ SGoto(e, "h_failed_w")
          /\ UNCHANGED <<stats, run, done>>
       \/ /\ spc[e] = "h_failed_w"
          /\ stats' = [stats EXCEPT !.failed_runs = frame[e].tmp + 1]
          /\ done' = [done EXCEPT ![e] =
                         [Written(e, 3) EXCEPT
                             !.ended = "failure",
                             !.alert = check_consecutive_failures(frame[e].scraper_type)]]
          /\ run' = [run EXCEPT ![e] = NoRun]
          /\ SetFrame(e, [InitialFrame EXCEPT !.runnable = frame[e].runnable,
                                              !.job = frame[e].job])
          /\ SGoto(e, Continuation(e))
    /\ UNCHANGED <<scraperVars, valVars, report, last_status, config_path, constructed, enabled, is_running, thread, jobs, due, ctr, stored>>

\* _run_scraper_job, lines 158-216
run_scraper_job(e) ==
    \/ job_scrape(e)
    \/ job_store(e)
    \/ job_success(e)
    \/ job_failure(e)

\* the jobs of the list that are due, in order (schedule.run_pending)
RECURSIVE Runnable(_, _)
Runnable(js, d) ==
    IF js = <<>> THEN <<>>
    ELSE (IF Head(js).id \in d THEN <<Head(js)>> ELSE <<>>) \o Runnable(Tail(js), d)

\* the loop does not look at is_running
LoopForever == TRUE

\* line 329: while self.is_running
LoopCondition == is_running

\* run_scheduler, lines 327-331: the loop of the thread start() creates;
\* after its sleep the thread tests is_running again
run_scheduler(l) ==
    /\ spc[l] \in {"l_test", "l_sleep"}
    /\ SGoto(l, IF LoopCondition THEN "l_pending" ELSE "dead")
    /\ UNCHANGED <<scraperVars, valVars, report, last_status, config_path, constructed, enabled, is_running, thread, jobs, due, stats, frame, run, done, ctr,
                   stored>>

\* the loop thread goes on with the jobs it still has to run: it calls the
\* function of the next one, or sleeps when none is left (line 331)
RunNext(l, runnable) ==
    IF runnable = <<>>
    THEN /\ SGoto(l, "l_sleep")
         /\ SetFrame(l, [frame[l] EXCEPT !.runnable = <<>>, !.job = NoJob])
         /\ UNCHANGED <<run, done, ctr>>
    ELSE LET job == Head(runnable)
             f == [frame[l] EXCEPT !.runnable = Tail(runnable), !.job = job]
         IN CASE job.name = "health_check" ->
                   /\ SetFrame(l, f)
                   /\ SGoto(l, "l_ran")
                   /\ UNCHANGED <<run, done, ctr>>
              [] job.name = "daily_report" ->
                   /\ SetFrame(l, f)
                   /\ SGoto(l, "r_report")
                   /\ UNCHANGED <<run, done, ctr>>
              [] OTHER ->
                   /\ EnterJob(l, job.name, f)
                   /\ ctr' = [ctr EXCEPT !.started = @ + 1]

\* schedule.run_pending(), line 330: the due jobs are run one after the
\* other; a job is scheduled again when its function has returned
run_pending(l) ==
    \/ /\ spc[l] = "l_pending"
       /\ RunNext(l, Runnable(jobs, due))
       /\ UNCHANGED <<scraperVars, valVars, report, last_status, config_path, constructed, enabled, is_running, thread, jobs, due, stats, stored>>
    \/ /\ spc[l] = "l_ran"
       /\ due' = due \ {frame[l].job.id}
       /\ RunNext(l, frame[l].runnable)
       /\ UNCHANGED <<scraperVars, valVars, report, last_status, config_path, constructed, enabled, is_running, thread, jobs, stats, stored>>

\* _generate_daily_report, lines 296-316: the report is built from the
\* statistics and logged, then the four counters are reset one by one
generate_daily_report(l) ==
    /\ \/ /\ spc[l] = "r_report"
          /\ report' = <<stats.total_runs, stats.successful_runs, stats.failed_runs,
                         stats.total_records_scraped>>
          /\ SGoto(l, "r_total")
          /\ UNCHANGED <<stats, frame>>
       \/ /\ spc[l] = "r_total"
          /\ stats' = [stats EXCEPT !.total_runs = 0]
          /\ SGoto(l, "r_succ")
          /\ UNCHANGED <<frame, report>>
       \/ /\ spc[l] = "r_succ"
          /\ stats' = [stats EXCEPT !.successful_runs = 0]
          /\ SGoto(l, "r_failed")
          /\ UNCHANGED <<frame, report>>
       \/ /\ spc[l] = "r_failed"
          /\ stats' = [stats EXCEPT !.failed_runs = 0]
          /\ SGoto(l, "r_records")
          /\ UNCHANGED <<frame, report>>
       \/ /\ spc[l] = "r_records"
          /\ stats' = [stats EXCEPT !.total_records_scraped = 0]
          /\ SGoto(l, "l_ran")
          /\ UNCHANGED <<frame, report>>
    /\ UNCHANGED <<scraperVars, valVars, last_status, config_path, constructed, enabled, is_running,
                   thread, jobs, due, run, done, ctr, stored>>

\* a scheduled job becomes due as time passes; a scraper job that becomes
\* due takes one of the MaxRuns job runs
BecomeDue ==
    /\ ctr.dues < MaxDue
    /\ \E i \in 1..Len(jobs) :
          /\ jobs[i].id \notin due
          /\ due' = due \cup {jobs[i].id}
          /\ IF jobs[i].name \in ScraperNames
             THEN /\ ctr.runs < MaxRuns
                  /\ ctr' = [ctr EXCEPT !.dues = @ + 1, !.runs = @ + 1]
             ELSE ctr' = [ctr EXCEPT !.dues = @ + 1]
    /\ UNCHANGED <<scraperVars, valVars, report, last_status, config_path, constructed, enabled, is_running, thread, jobs, stats, spc, frame, run, done,
                   stored>>

\* the job objects setup_schedules appends, numbered from first
NewJobs(names, first) == [i \in 1..Len(names) |-> Job(first + i, names[i])]

\* start() does not look at is_running
StartAnyway == FALSE

\* line 319: if self.is_running
AlreadyRunning == is_running

\* start(), lines 318-335
start ==
    \/ /\ spc[Main] = "idle"
       /\ constructed = "yes"
       /\ ctr.calls < MaxCalls
       /\ is_running \/ \E l \in Loops : spc[l] = "unborn"
       /\ SGoto(Main, "s_check")
       /\ ctr' = [ctr EXCEPT !.calls = @ + 1, !.stopped = FALSE]
       /\ UNCHANGED <<scraperVars, valVars, report, last_status, config_path, constructed, enabled, is_running, thread, jobs, due, stats, frame, run, done,
                      stored>>
    \/ /\ spc[Main] = "s_check"
       /\ IF AlreadyRunning
          THEN SGoto(Main, "idle") /\ ctr' = [ctr EXCEPT !.starts_returned = @ + 1]
          ELSE SGoto(Main, "s_setup") /\ UNCHANGED ctr
       /\ UNCHANGED <<scraperVars, valVars, report, last_status, config_path, constructed, enabled, is_running, thread, jobs, due, stats, frame, run, done,
                      stored>>
    \/ /\ spc[Main] = "s_setup"
       /\ jobs' = jobs \o NewJobs(Installed(enabled), ctr.jobs)
       /\ ctr' = [ctr EXCEPT !.jobs = @ + Len(Installed(enabled))]
       /\ SGoto(Main, "s_flag")
       /\ UNCHANGED <<scraperVars, valVars, report, last_status, config_path, constructed, enabled, is_running, thread, due, stats, frame, run, done,
                      stored>>
    \/ /\ spc[Main] = "s_flag"
       /\ is_running' = TRUE
       /\ SGoto(Main, "s_thread")
       /\ UNCHANGED <<scraperVars, valVars, report, last_status, config_path, constructed, enabled, thread, jobs, due, stats, frame, run, done, ctr,
                      stored>>
    \/ /\ spc[Main] = "s_thread"
       /\ \E l \in Loops :
            /\ spc[l] = "unborn"
            /\ \A k \in Loops : spc[k] = "unborn" => l <= k
            /\ thread' = l
            /\ spc' = [spc EXCEPT ![l] = "l_test", ![Main] = "idle"]
       /\ ctr' = [ctr EXCEPT !.starts_returned = @ + 1]
       /\ UNCHANGED <<scraperVars, valVars, report, last_status, config_path, constructed, enabled, is_running, jobs, due, stats, frame, run, done,
                      stored>>

\* thread.join(timeout=5) returns: the thread has ended, or it is in a sleep
\* or a job that outlasts the timeout
JoinReturns(l) ==
    \/ spc[l] \in {"dead", "crashed"}
    \/ spc[l] = "l_sleep"
    \/ Busy(l)

\* stop(), lines 338-345
stop ==
    \/ /\ spc[Main] = "idle"
       /\ constructed = "yes"
       /\ ctr.calls < MaxCalls
       /\ SGoto(Main, "t_flag")
       /\ ctr' = [ctr EXCEPT !.calls = @ + 1, !.stops = @ + 1]
       /\ UNCHANGED <<scraperVars, valVars, report, last_status, config_path, constructed, enabled, is_running, thread, jobs, due, stats, frame, run, done,
                      stored>>
    \/ /\ spc[Main] = "t_flag"
       /\ is_running' = FALSE
       /\ SGoto(Main, "t_join")
       /\ UNCHANGED <<scraperVars, valVars, report, last_status, config_path, constructed, enabled, thread, jobs, due, stats, frame, run, done, ctr,
                      stored>>
    \/ /\ spc[Main] = "t_join"
       /\ thread # 0 => JoinReturns(thread)
       /\ SGoto(Main, "t_clear")
       /\ UNCHANGED <<scraperVars, valVars, report, last_status, config_path, constructed, enabled, is_running, thread, jobs, due, stats, frame, run, done, ctr,
                      stored>>
    \/ /\ spc[Main] = "t_clear"
       /\ jobs' = <<>>
       /\ due' = {}
       /\ SGoto(Main, "idle")
       /\ ctr' = [ctr EXCEPT !.stopped = TRUE]
       /\ UNCHANGED <<scraperVars, valVars, report, last_status, config_path, constructed, enabled, is_running, thread, stats, frame, run, done,
                      stored>>

\* run_manual_job(scraper_type), lines 347-350
run_manual_job ==
    /\ spc[Main] = "idle"
    /\ constructed = "yes"
    /\ ctr.calls < MaxCalls
    /\ ctr.runs < MaxRuns
    /\ \E name \in ScraperNames \cup {UnknownName} :
          /\ EnterJob(Main, name, frame[Main])
          /\ ctr' = [ctr EXCEPT !.calls = @ + 1, !.runs = @ + 1, !.started = @ + 1]
    /\ UNCHANGED <<scraperVars, valVars, report, last_status, config_path, constructed, enabled, is_running, thread, jobs, due, stats, stored>>

\* the caller holds no status
NoStatus == <<>>

\* line 359: the dict a status holds under 'stats' is self.stats itself, so
\* reading it gives the scheduler's statistics of the moment
StatsHeld(s) == stats

\* get_status(), lines 352-362: the caller keeps the last_status returned;
\* stats_then is what the statistics were at the return
get_status ==
    /\ spc[Main] = "idle"
    /\ constructed = "yes"
    /\ ctr.calls < MaxCalls
    /\ ctr' = [ctr EXCEPT !.calls = @ + 1]
    /\ last_status' = [is_running |-> is_running, total_scheduled_jobs |-> Len(jobs),
                  stats_then |-> stats]
    /\ UNCHANGED <<scraperVars, valVars, report, config_path, constructed, enabled, is_running,
                   thread, jobs, due, stats, spc, frame, run, done, stored>>

(***************************************************************************)
(* Initial states.                                                         *)
(***************************************************************************)
InitThreads ==
    /\ now = 0
    /\ pc = [t \in Threads |-> "idle"]
    /\ ret = [t \in Threads |-> "idle"]
    /\ wake = [t \in Threads |-> 0]

\* RateLimiter.__init__, lines 225-230
NewLimiter ==
    /\ request_count = 0
    /\ window_start = 0
    /\ current_time = [t \in Threads |-> 0]
    /\ admitted = 0
    /\ in_interval = 0
    /\ slept = [t \in Threads |-> FALSE]

\* the starts of the intervals of 60 seconds that end by MaxTime
IntervalStarts == 0..(MaxTime - WindowSeconds)

\* a new limiter, observed from time 0 on
InitLimiter == NewLimiter /\ interval_start = 0

\* ProxyManager.__init__, lines 194-197
InitPool(ps) ==
    /\ proxies = ps
    /\ current_index = 0
    /\ failed_proxies = {}
    /\ available = [t \in Threads |-> <<>>]
    /\ got = [t \in Threads |-> "unset"]
    /\ cleared = [t \in Threads |-> FALSE]
    /\ index_read = [t \in Threads |-> 0]
    /\ returned = <<>>

(***************************************************************************)
(* SpecLimiter: one caller of wait().  SpecLimiterConc: two callers.       *)
(***************************************************************************)
\* make_request has not been called
InitFetch ==
    /\ attempt = [t \in Threads |-> 0]
    /\ requests = [t \in Threads |-> 0]
    /\ result = [t \in Threads |-> "pending"]
    /\ outcome = [t \in Threads |-> RequestException]
    /\ failed_route = [t \in Threads |-> "unset"]
    /\ failed_at = [t \in Threads |-> 0]
    /\ passed = [t \in Threads |-> [waits |-> 0, routes |-> 0]]

\* validate_batch has not been called
IdleValidator ==
    /\ data_type = "vehicle"
    /\ data_list = <<>>
    /\ batch_out = [unset |-> TRUE]
    /\ summary = [unset |-> TRUE]

\* the scheduler has been constructed with the default configuration
IdleScheduler == InitScheduler(ScraperNames)

InitLim == InitThreads /\ InitLimiter /\ InitPool(<<>>) /\ InitFetch /\ IdleValidator /\ IdleScheduler

\* the same, observed over an interval of 60 seconds drawn at the start
InitLimFrom ==
    /\ InitThreads /\ NewLimiter /\ InitPool(<<>>) /\ InitFetch /\ IdleValidator /\ IdleScheduler
    /\ interval_start \in IntervalStarts

NextLimiter == \/ Tick
               \/ CallWait(1)
               \/ wait(1)

SpecLimiter == InitLim /\ [][NextLimiter]_vars

\* one caller, observed over an interval of 60 seconds drawn at the start
SpecLimiterWindow == InitLimFrom /\ [][NextLimiter]_vars

NextLimiterConc == \/ TickConc
                   \/ \E t \in Threads : CallWait(t)
                   \/ \E t \in Threads : wait(t)

SpecLimiterConc == InitLim /\ [][NextLimiterConc]_vars

(***************************************************************************)
(* SpecPool: one caller of get_proxy() and mark_failed() on a pool drawn   *)
(* at construction.                                                        *)
(***************************************************************************)
Pools == SeqsUpTo(Routes, MaxPool)

InitPoolSpec == /\ InitThreads /\ InitLimiter /\ InitFetch /\ IdleValidator /\ IdleScheduler
                /\ \E ps \in Pools : InitPool(ps)

NextPool == \/ CallGetProxy(1)
            \/ get_proxy(1)
            \/ \E p \in Routes : mark_failed(1, p)

SpecPool == InitPoolSpec /\ [][NextPool]_vars

FetchPools == {SubSeq(<<"p1", "p2", "p3">>, 1, n) : n \in 0..MaxPool}

\* the same pool shared by the callers of several threads; a caller starts
\* a call while fewer than MaxIndex routes were returned since the
\* quarantine set last changed
InitPoolConc == /\ InitThreads /\ InitLimiter /\ InitFetch /\ IdleValidator /\ IdleScheduler
                /\ \E ps \in FetchPools : InitPool(ps)

NextPoolConc == \/ \E t \in Threads : (Len(returned) < MaxIndex /\ CallGetProxy(t))
                \/ \E t \in Threads : get_proxy(t)
                \/ \E t \in Threads : \E p \in Routes : mark_failed(t, p)

SpecPoolConc == InitPoolConc /\ [][NextPoolConc]_vars

(***************************************************************************)
(* SpecFetch: one caller of make_request() on a scraper whose proxy list   *)
(* is drawn at construction.                                               *)
(***************************************************************************)

InitFetchSpec == /\ InitThreads /\ InitLimiter /\ InitFetch /\ IdleValidator /\ IdleScheduler
                 /\ \E ps \in FetchPools : InitPool(ps)

NextFetch == \/ TickConc
             \/ CallMakeRequest(1)
             \/ make_request(1)
             \/ wait(1)
             \/ get_proxy(1)

SpecFetch == InitFetchSpec /\ [][NextFetch]_vars

(***************************************************************************)
(* Inputs of the validator                                                 *)
(***************************************************************************)
\* longest list of several records handed to validate_batch
MaxBatch == 2

\* the ways of choosing one option per field
RECURSIVE Choices(_)
Choices(options) ==
    IF DOMAIN options = {} THEN {<<>>}
    ELSE LET k == CHOOSE x \in DOMAIN options : TRUE
             rest == [x \in DOMAIN options \ {k} |-> options[x]]
         IN {(k :> v) @@ f : v \in options[k], f \in Choices(rest)}

\* the records built from a table of field options
RecordsOf(options) == {DictOf(f) : f \in Choices(options)}
\* values drawn for the fields of a vehicle record
VehicleOptions ==
    ("make" :> {Absent, PyStr(<<"T", "o", "y", "o", "t", "a">>), PyStr(<<"v", "w">>), PyStr(<<"Y", "u", "g", "o">>), PyStr(<<"a", "c">>), PyNone})
    @@ ("model" :> {Absent, PyStr(<<"S", "u", "p", "r", "a">>), PyStr(<<"u", "n", "k", "n", "o", "w", "n">>)})
    @@ ("year" :> {Absent, PyInt(2020), PyInt(1850), PyInt(1975), PyStr(<<"a", "b", "c">>), PyInf, PyInt(0)})
    @@ ("vin" :> {Absent, PyStr(<<"1", "H", "G", "C", "M", "8", "2", "6", "3", "3", "A", "0", "0", "4", "3", "5", "2">>), PyStr(<<"1", "h", "g", "c", "m", "8", "2", "6", "3", "3", "a", "o", "o", "4", "3", "5", "2">>),
                 PyStr(<<"1", "H", "G", "C", "M", "8", "2", "6", "3", "3", "A", "O", "0", "4", "3", "5", "2">>),
                 PyStr(<<"1", "H", "G", "C", "M", "8", "2", "6", "3", "3", "A", "0", "0", "4", "3", "5">>),
                 PyStr(<<"1", "H", "G", "C", "M", "8", "2", "6", "3", "3", "A", "0", "0", "4", "3", "5", "2", "7">>),
                 PyStr(<<" ", "1", "H", "G", "C", "M", "8", "2", "6", "3", "3", "A", "0", "0", "4", "3", "5", "2">>)})
    @@ ("price" :> {Absent, PyInt(25000), PyInt(-5), PyInt(20000000), PyStr(<<"a", "b", "c">>)})

\* vehicle records with a make that is part of many known makes
VehicleEdgeOptions ==
    ("make" :> {Absent, PyStr(<<>>), PyStr(<<"a">>)})
    @@ ("model" :> {Absent, PyStr(<<"S", "u", "p", "r", "a">>), PyStr(<<>>)})
    @@ ("notes" :> {Absent, PyStr(<<>>)})

\* values drawn for the fields of a duty rate record
DutyRateOptions ==
    ("country" :> {Absent, PyNone, PyStr(<<"C", "a", "n", "a", "d", "a">>), PyStr(<<"u", "s">>), PyStr(<<"u", "s", "a">>), PyStr(<<"A", "t", "l", "a", "n", "t", "i", "s">>)})
    @@ ("duty_rate_percent" :> {Absent, PyNone, PyInt(5), PyInt(150), PyInt(-1), PyStr(<<"a", "b", "c">>), PyInt(0)})
    @@ ("hts_code" :> {Absent, PyStr(<<"8", "7", "0", "3", ".", "2", "3", ".", "0", "0">>), PyStr(<<"8", "7", "0", "3", "2", "3", "0", "0">>)})
    @@ ("vehicle_category" :> {Absent, PyStr(<<"t", "r", "u", "c", "k">>), PyStr(<<"b", "o", "a", "t">>)})
    @@ ("effective_date" :> {Absent, PyStr(<<"2", "0", "2", "4", "-", "0", "1", "-", "1", "5">>), PyStr(<<"1", "5", "/", "0", "1", "/", "2", "0", "2", "4">>), PyStr(<<"2", "0", "2", "3", "-", "0", "2", "-", "2", "9">>)})

\* duty rate records with a country that is part of many known countries
DutyRateEdgeOptions ==
    ("country" :> {Absent, PyStr(<<>>), PyStr(<<"a", "n">>)})
    @@ ("duty_rate_percent" :> {Absent, PyInt(5), PyInf})
    @@ ("effective_date" :> {Absent, PyStr(<<"2", "0", "2", "4", "-", "0", "1", "-", "1", "5", " ", "1", "0", ":", "3", "0", ":", "0", "0">>), PyStr(<<"s", "o", "o", "n">>), PyInt(20240115)})

\* values drawn for the fields of an import eligibility record
EligibilityOptions ==
    ("country_destination" :> {Absent, PyStr(<<"U", "n", "i", "t", "e", "d", " ", "S", "t", "a", "t", "e", "s">>), PyStr(<<"u", "s", "a">>), PyStr(<<"A", "t", "l", "a", "n", "t", "i", "s">>), PyStr(<<>>)})
    @@ ("regulatory_authority" :> {Absent, PyStr(<<"N", "H", "T", "S", "A">>), PyStr(<<"F", "B", "I">>), PyStr(<<>>)})
    @@ ("eligibility_status" :> {Absent, PyStr(<<"E", "l", "i", "g", "i", "b", "l", "e">>), PyStr(<<"M", "a", "y", "b", "e">>)})
    @@ ("twenty_five_year_rule" :> {Absent, PyBool(TRUE), PyBool(FALSE), PyStr(<<"y", "e", "s">>)})

\* values drawn for the fields of a timeline record
TimelineOptions ==
    ("process_step" :> {Absent, PyStr(<<"C", "u", "s", "t", "o", "m", "s", " ", "c", "l", "e", "a", "r", "a", "n", "c", "e">>), PyStr(<<>>), PyStr(<<" ", " ">>)})
    @@ ("estimated_duration_days" :> {Absent, PyInt(30), PyInt(0), PyInt(-3), PyInt(800), PyStr(<<"a", "b", "c">>), PyInf, PyNone, PyStr(<<"1", "4">>)})
    @@ ("notes" :> {Absent, PyStr(<<>>), PyStr(<<"x">>)})

\* a data type validate_batch has no method for (the name of a scrape job)
UnregisteredType == "customs_duty_rates"

\* the records drawn for a data type; None stands for a record that is no dict
Records(dt) ==
    {PyNone} \cup
    CASE dt = "vehicle" -> RecordsOf(VehicleOptions) \cup RecordsOf(VehicleEdgeOptions)
      [] dt = "duty_rate" -> RecordsOf(DutyRateOptions) \cup RecordsOf(DutyRateEdgeOptions)
      [] dt = "import_eligibility" -> RecordsOf(EligibilityOptions)
      [] dt = "timeline_data" -> RecordsOf(TimelineOptions)
      [] OTHER -> RecordsOf(TimelineOptions)

\* the records lists of several records are made of: per type a clean
\* record, one with a warning, one with an error, one whose validation
\* raises inside the method, and one that is no dict
BatchRecords(dt) ==
    {PyNone} \cup
    CASE dt = "vehicle" ->
           {DictOf(("make" :> m) @@ ("model" :> PyStr(<<"S", "u", "p", "r", "a">>)) @@ ("year" :> y))
              : m \in {PyStr(<<"T", "o", "y", "o", "t", "a">>), PyStr(<<"v", "w">>)},
                y \in {PyInt(2020), PyInt(1850), PyInf}}
      [] dt = "duty_rate" ->
           {DictOf(("country" :> c) @@ ("duty_rate_percent" :> r))
              : c \in {PyStr(<<"C", "a", "n", "a", "d", "a">>), PyStr(<<"u", "s">>)},
                r \in {PyInt(5), PyInt(-1), Absent}}
      [] dt = "import_eligibility" ->
           {DictOf(("country_destination" :> c) @@ ("regulatory_authority" :> a))
              : c \in {PyStr(<<"J", "a", "p", "a", "n">>), PyStr(<<"u", "s", "a">>)},
                a \in {PyStr(<<"E", "P", "A">>), PyStr(<<>>), Absent}}
      [] OTHER ->
           {DictOf(("process_step" :> s) @@ ("estimated_duration_days" :> d))
              : s \in {PyStr(<<"S", "h", "i", "p">>), PyStr(<<>>)},
                d \in {PyInt(30), PyInt(800), PyInf}}

\* the lists handed to validate_batch: every record alone, and the lists of
\* up to MaxBatch records
DataLists(dt) ==
    {<<r>> : r \in Records(dt)} \cup SeqsUpTo(BatchRecords(dt), MaxBatch)

Unset == [unset |-> TRUE]

\* the sum of two fractions, and of the scores of a list of results
AddFraction(p, q) == Fraction(p.n * q.d + q.n * p.d, p.d * q.d)

RECURSIVE SumOfScores(_)
SumOfScores(results) ==
    IF results = <<>> THEN ScoreZero
    ELSE AddFraction(Head(results).quality_score, SumOfScores(Tail(results)))

RECURSIVE SumOfLengths(_, _)
SumOfLengths(results, field) ==
    IF results = <<>> THEN 0
    ELSE Len(Head(results)[field]) + SumOfLengths(Tail(results), field)

\* a grading whose thresholds are exclusive
GradeAbove(score) ==
    IF 10 * score.n > 9 * score.d THEN "A"
    ELSE IF 10 * score.n > 8 * score.d THEN "B"
    ELSE IF 10 * score.n > 7 * score.d THEN "C"
    ELSE IF 10 * score.n > 6 * score.d THEN "D"
    ELSE "F"

\* _get_quality_grade, lines 445-456
get_quality_grade(score) ==
    IF 10 * score.n >= 9 * score.d THEN "A"
    ELSE IF 10 * score.n >= 8 * score.d THEN "B"
    ELSE IF 10 * score.n >= 7 * score.d THEN "C"
    ELSE IF 10 * score.n >= 6 * score.d THEN "D"
    ELSE "F"

\* get_validation_summary, lines 426-443
get_validation_summary(results) ==
    LET total == Len(results)
        valid == Cardinality({i \in 1..total : results[i].is_valid})
        total_errors == SumOfLengths(results, "errors")
        total_warnings == SumOfLengths(results, "warnings")
        sum == SumOfScores(results)
        avg_quality == IF total > 0 THEN Fraction(sum.n, sum.d * total) ELSE ScoreZero
    IN [total_records |-> total,
        valid_records |-> valid,
        invalid_records |-> total - valid,
        validation_rate |-> IF total > 0 THEN Fraction(valid, total) ELSE ScoreZero,
        total_errors |-> total_errors,
        total_warnings |-> total_warnings,
        average_quality_score |-> avg_quality,
        quality_grade |-> get_quality_grade(avg_quality)]

InitValidator ==
    /\ data_type \in DataTypes \cup {UnregisteredType}
    /\ data_list \in DataLists(data_type)
    /\ batch_out = Unset
    /\ summary = Unset

\* a call of validate_batch(data_list, data_type) and what it returns
CallValidateBatch ==
    /\ batch_out = Unset
    /\ batch_out' \in validate_batch(data_list, data_type)
    /\ UNCHANGED <<data_type, data_list, summary>>
    /\ UNCHANGED <<scraperVars, schedVars>>

\* a call of get_validation_summary on the list validate_batch returned
CallGetValidationSummary ==
    /\ "results" \in DOMAIN batch_out
    /\ summary = Unset
    /\ summary' = get_validation_summary(batch_out.results)
    /\ UNCHANGED <<data_type, data_list, batch_out>>
    /\ UNCHANGED <<scraperVars, schedVars>>

(***************************************************************************)
(* SpecValidator: one call of validate_batch on a list and a data type     *)
(* drawn at the start.                                                     *)
(***************************************************************************)
InitValidatorSpec ==
    InitThreads /\ InitLimiter /\ InitPool(<<>>) /\ InitFetch /\ InitValidator /\ IdleScheduler

NextValidator == \/ CallValidateBatch
                 \/ CallGetValidationSummary

SpecValidator == InitValidatorSpec /\ [][NextValidator]_vars

(***************************************************************************)
(* SpecScheduler: one scheduler, the thread calling its public operations  *)
(* and the loop threads it creates; what the configuration path points     *)
(* at is drawn at the start.                                               *)
(***************************************************************************)
InitSchedulerSpec ==
    /\ InitThreads /\ InitLimiter /\ InitPool(<<>>) /\ InitFetch /\ IdleValidator
    /\ \E file \in ConfigFiles : Unconstructed(file)

NextScheduler ==
    \/ construct
    \/ start
    \/ stop
    \/ run_manual_job
    \/ get_status
    \/ BecomeDue
    \/ \E e \in Executors : run_scraper_job(e)
    \/ \E l \in Loops : run_scheduler(l)
    \/ \E l \in Loops : run_pending(l)
    \/ \E l \in Loops : generate_daily_report(l)

SpecScheduler == InitSchedulerSpec /\ [][NextScheduler]_vars

\* the loop threads keep being scheduled: a sleep ends, a job or a report
\* that has begun goes on to its end
FairLoops ==
    \A l \in Loops :
        /\ WF_vars(run_scheduler(l))
        /\ WF_vars(run_pending(l))
        /\ WF_vars(generate_daily_report(l))
        /\ WF_vars(run_scraper_job(l))

SpecSchedulerFair == SpecScheduler /\ FairLoops

(***************************************************************************)
(* SpecLifecycle: a scheduler on which start() has returned once, then     *)
(* calls of start() and stop() next to the loop threads; the calls         *)
(* counted are those made after that first start().                       *)
(***************************************************************************)
\* the state start() leaves when called on the scheduler constructed from
\* a file that enables the jobs of config (lines 318-335)
StartedScheduler(config) ==
    /\ config_path = ConfigFile("file", config)
    /\ constructed = "yes"
    /\ enabled = config
    /\ is_running = TRUE
    /\ thread = 1
    /\ jobs = NewJobs(Installed(config), 0)
    /\ due = {}
    /\ stats = InitialStats
    /\ spc = [e \in Executors |-> IF e = Main THEN "idle"
                                  ELSE IF e = 1 THEN "l_test" ELSE "unborn"]
    /\ frame = [e \in Executors |-> InitialFrame]
    /\ run = [e \in Executors |-> NoRun]
    /\ done = [e \in Executors |-> NoRun]
    /\ stored = <<>>
    /\ report = <<>>
    /\ last_status = <<>>
    /\ ctr = [calls |-> 0, runs |-> 0, started |-> 0, dues |-> 0,
              jobs |-> Len(Installed(config)),
              starts_returned |-> 1, stops |-> 0, stopped |-> FALSE]

\* the configurations of the started scheduler: one scraper job enabled
LifecycleConfigs == {{"import_eligibility"}}

InitLifecycle ==
    /\ InitThreads /\ InitLimiter /\ InitPool(<<>>) /\ InitFetch /\ IdleValidator
    /\ \E config \in LifecycleConfigs : StartedScheduler(config)

NextLifecycle ==
    \/ start
    \/ stop
    \/ BecomeDue
    \/ \E l \in Loops : run_scraper_job(l)
    \/ \E l \in Loops : run_scheduler(l)
    \/ \E l \in Loops : run_pending(l)
    \/ \E l \in Loops : generate_daily_report(l)

SpecLifecycle == InitLifecycle /\ [][NextLifecycle]_vars

(***************************************************************************)
(* Properties.                                                             *)
(***************************************************************************)

\* C1: whatever the outcomes of the attempts, one call of make_request
\* issues at most max_retries + 1 requests.
C1_AttemptsBounded == \A t \in Threads : requests[t] <= max_retries + 1

\* a call that issued max_retries + 1 requests and returned None
C1_Witness ==
    /\ pc[1] = "idle"
    /\ requests[1] = max_retries + 1
    /\ result[1] = None

\* C2: with one caller, the calls of wait() that passed the gate without a
\* rate-limit sleep since window_start was last set never number more than
\* requests_per_minute.
C2_WindowCap == admitted <= requests_per_minute

\* the window is full and the next call is held at the gate
C2_Witness ==
    /\ admitted = requests_per_minute
    /\ pc[1] = "w_sleep"
    /\ slept[1]

\* C6: for a non-empty pool get_proxy returns a route of the pool, never
\* None; a call that finds every route quarantined clears the quarantine
\* set and picks from the full pool; None is returned only for an empty pool.
C6_NeverNone ==
    \A t \in Threads :
        /\ (proxies # <<>> /\ got[t] # "unset") => got[t] \in Range(proxies)
        /\ got[t] = None => proxies = <<>>
        /\ (cleared[t] /\ pc[t] \in {"gp_pick", "gp_inc"}) =>
               (failed_proxies = {} /\ available[t] = proxies)

\* a call that found both routes of a pool quarantined has returned a route
C6_Witness ==
    /\ Cardinality(Range(proxies)) >= 2
    /\ cleared[1]
    /\ pc[1] = "idle"
    /\ got[1] \in Range(proxies)
    /\ failed_proxies = {}

\* C9: with two callers of wait(), the calls admitted without a rate-limit
\* sleep within one window never number more than requests_per_minute.
C9_CapUnderConcurrency == ~(admitted > requests_per_minute)

\* C10: when the next attempt of make_request is about to acquire a route,
\* the route of the attempt that just failed is in the quarantine set.
C10_FailedRouteQuarantined ==
    \A t \in Threads :
        (pc[t] = "mr_proxy" /\ failed_route[t] \notin {"unset", None})
            => failed_route[t] \in failed_proxies

\* C16: once an attempt has received status 200 the call has returned the
\* response: it is in no backoff sleep, no wait() and issues no request.
C16_SuccessReturns ==
    \A t \in Threads :
        outcome[t] = 200 => (pc[t] = "idle" /\ result[t] = "response")

\* a call returned the response of its second attempt
C16_Witness ==
    /\ outcome[1] = 200
    /\ attempt[1] = 1
    /\ requests[1] = 2
    /\ pc[1] = "idle"
    /\ result[1] = "response"

\* C17: once an attempt has received a status other than 200, 429, 502,
\* 503, 504 the call has returned None, at whatever attempt index: no retry
\* and no backoff sleep follow.
C17_FatalReturns ==
    \A t \in Threads :
        (requests[t] >= 1 /\ outcome[t] \notin {200, 429, 502, 503, 504, RequestException})
            => /\ pc[t] = "idle"
               /\ result[t] = None
               /\ requests[t] = attempt[t] + 1

\* a call returned None on a 404 at its second attempt
C17_Witness ==
    /\ outcome[1] = 404
    /\ attempt[1] = 1
    /\ requests[1] = 2
    /\ pc[1] = "idle"
    /\ result[1] = None

\* the last attempt of the current call of t ended in a retryable failure
RetryableFailure(t) ==
    requests[t] >= 1 /\ outcome[t] \in {429, 502, 503, 504, RequestException}

\* C18: a retryable failure with attempts remaining keeps the call going; a
\* backoff sleep happens only after a retryable failure of an attempt that
\* is not the last; after the failure of attempt max_retries the call
\* leaves the loop and returns None.
C18_RetryableExhausts ==
    \A t \in Threads :
        /\ pc[t] = "mr_backoff" => (RetryableFailure(t) /\ attempt[t] < max_retries)
        /\ (RetryableFailure(t) /\ requests[t] <= max_retries)
              => (pc[t] # "idle" /\ result[t] = "pending")
        /\ (RetryableFailure(t) /\ requests[t] = max_retries + 1)
              => /\ pc[t] \in {"mr_loop", "idle"}
                 /\ pc[t] = "idle" => result[t] = None

\* every attempt of a call got 503 and the call returned None
C18_Witness ==
    /\ pc[1] = "idle"
    /\ outcome[1] = 503
    /\ requests[1] = max_retries + 1
    /\ attempt[1] = max_retries + 1
    /\ result[1] = None

\* C19: when the request of a later attempt is issued, at most max_delay
\* seconds have passed since the attempt before it failed.
C19_DelayCapped ==
    \A t \in Threads :
        (pc[t] = "mr_request" /\ attempt[t] > 0) => now - failed_at[t] <= max_delay

\* C30: with one caller, in an interval of 60 seconds, wherever it starts,
\* at most requests_per_minute calls of wait() return.
C30_RollingWindowCap == in_interval <= requests_per_minute

\* C31: no request bypasses the rate gate.  Of the calls make_request has
\* made, the returned calls of get_proxy never outnumber those of wait(),
\* the requests issued never outnumber either; when a request is about to
\* be issued one call of wait() and then one of get_proxy() have returned
\* in its attempt, and while get_proxy() runs the wait() of the attempt has
\* returned already.
C31_EveryRequestGated ==
    \A t \in Threads :
        /\ requests[t] <= passed[t].routes
        /\ passed[t].routes <= passed[t].waits
        /\ pc[t] = "mr_request" =>
              /\ passed[t].waits = requests[t] + 1
              /\ passed[t].routes = requests[t] + 1
        /\ ret[t] = "mr_request" =>
              /\ passed[t].waits = requests[t] + 1
              /\ passed[t].routes = requests[t]

\* the request of the second retry has been issued behind its own wait()
\* and get_proxy()
C31_Witness ==
    /\ requests[1] = max_retries + 1
    /\ attempt[1] = max_retries
    /\ passed[1] = [waits |-> max_retries + 1, routes |-> max_retries + 1]
    /\ got[1] \in Range(proxies)

\* C32: with one caller, whatever calls of get_proxy and mark_failed came
\* before, the route get_proxy is about to return is a member of the pool
\* and is not quarantined (when every route was quarantined the call has
\* emptied the quarantine set).
C32_NoQuarantinedRoute ==
    \A t \in Threads :
        pc[t] = "gp_inc" =>
            /\ got[t] \in Range(proxies)
            /\ got[t] \notin failed_proxies

\* the route under the cursor in the pool is quarantined and get_proxy is
\* about to return another one
C32_Witness ==
    /\ pc[1] = "gp_inc"
    /\ PickRoute(proxies, current_index) \in failed_proxies
    /\ got[1] \in Range(proxies) \ failed_proxies
    /\ ~cleared[1]

\* the routes of the pool that are not quarantined, in pool order
AvailableNow == AvailableProxies(proxies, failed_proxies)

\* the last n elements of sequence s
LastOf(s, n) == SubSeq(s, Len(s) - n + 1, Len(s))

\* rs lists the positions of av once each, in order, starting anywhere and
\* wrapping around
IsRotation(rs, av) ==
    /\ Len(rs) = Len(av)
    /\ \E r \in 0..(Len(av) - 1) :
          \A j \in 1..Len(av) : rs[j] = av[((r + j - 1) % Len(av)) + 1]

\* C33: with one caller, the cursor changes only when get_proxy returns a
\* route, and then by exactly one; and while the quarantine set has not
\* changed and k >= 1 routes are available, the last k routes returned are
\* the available routes once each, in pool order, cyclically.
C33_RoundRobin ==
    /\ []((Len(AvailableNow) >= 1 /\ Len(returned) >= Len(AvailableNow)) =>
             IsRotation(LastOf(returned, Len(AvailableNow)), AvailableNow))
    /\ [][(current_index' # current_index =>
               \E t \in Threads : pc[t] = "gp_inc" /\ pc'[t] = ret[t])
           /\ (\A u \in Threads :
                 (pc[u] = "gp_inc" /\ pc'[u] # pc[u]) =>
                     current_index' = current_index + 1)]_vars

\* a pool of three routes, one of them quarantined: the two others have
\* been returned one after the other, starting with the second of them
C33_Witness ==
    /\ Cardinality(Range(proxies)) = 3
    /\ Len(AvailableNow) = 2
    /\ Len(returned) = 2
    /\ returned = <<AvailableNow[2], AvailableNow[1]>>
    /\ pc[1] = "idle"

\* no thread is inside get_proxy
PoolIdle == \A t \in Threads : pc[t] = "idle"

\* C34: with several threads calling get_proxy and mark_failed on one
\* manager, the calls leave the state some serial order of them leaves; in
\* particular no cursor increment is lost: once the calls have returned,
\* the cursor has advanced by one for every route returned, so it is not
\* behind the number of routes returned since the quarantine set last
\* changed.
C34_PoolSerializable == PoolIdle => Len(returned) <= current_index

\* the results of the call, once validate_batch has returned a list
Returned == "results" \in DOMAIN batch_out
Results == IF Returned THEN batch_out.results ELSE <<>>

\* C3: for every record type and every record, a result whose errors list is
\* non-empty has quality_score 0.0 and is_valid False, the result built for
\* a record whose validation raised included.
C3_ErrorsZeroScore ==
    \A i \in 1..Len(Results) :
        Results[i].errors # <<>> =>
            /\ IsZeroScore(Results[i].quality_score)
            /\ Results[i].is_valid = FALSE

\* a list of two records was validated: the first has an error found by a
\* check although all its fields are filled, the second raised
C3_Witness ==
    /\ Len(Results) = 2
    /\ Kind(data_list[1]) = "dict"
    /\ \A k \in DOMAIN data_list[1].dict : Truthy(data_list[1].dict[k])
    /\ Results[1].errors # <<>>
    /\ Results[1].warnings = <<>>
    /\ data_list[2] = PyNone
    /\ Results[2].errors # <<>>

\* every outcome in outs is an exception
AllRaise(outs) == \A o \in outs : IsRaised(o)

\* validating record r raises
Raises(dt, r) == AllRaise(validate_method(dt, r))

\* res is what validate_batch owes a record whose validation has the
\* outcomes outs
ResultOf(res, record, outs) ==
    IF AllRaise(outs)
    THEN /\ res.is_valid = FALSE
         /\ Len(res.errors) = 1
         /\ IsZeroScore(res.quality_score)
         /\ res.validated_data = record
    ELSE res \in outs

\* C4: validate_batch with a registered type on N records returns exactly N
\* results, result i being the result of record i; a record whose validation
\* raises yields is_valid False, a single error and quality_score 0.0, and
\* the records after it are still validated.
C4_BatchTotal ==
    (batch_out # Unset /\ data_type \in DataTypes) =>
        /\ Returned
        /\ Len(Results) = Len(data_list)
        /\ \A i \in 1..Len(data_list) :
              ResultOf(Results[i], data_list[i], validate_method(data_type, data_list[i]))

\* a list whose first record raises inside the method and whose second
\* record is valid was validated
C4_Witness ==
    /\ Len(data_list) = 2
    /\ Len(Results) = 2
    /\ Kind(data_list[1]) = "dict"
    /\ Raises(data_type, data_list[1])
    /\ Results[2].is_valid

\* record i of a vehicle batch is a dict with a non-empty vin
CarriesVin(i) ==
    /\ data_type = "vehicle"
    /\ Kind(data_list[i]) = "dict"
    /\ Has(data_list[i].dict, "vin")
    /\ Truthy(data_list[i].dict["vin"])

\* v is a string of 17 characters, none of them I, O or Q
WellFormedVin(v) ==
    /\ Kind(v) = "str"
    /\ Len(v.str) = 17
    /\ \A k \in 1..Len(v.str) : v.str[k] \notin {"I", "O", "Q"}

\* s has 16 or 18 characters or contains an 'O'
MalformedVin(s) == Len(s) \in {16, 18} \/ \E k \in 1..Len(s) : s[k] = "O"

\* the result of record i has an error and is not valid
Rejected(i) == Results[i].errors # <<>> /\ Results[i].is_valid = FALSE

\* C22 as stated: a vehicle record with a non-empty vin that validates
\* without error has a vin of exactly 17 characters, none of them I, O or Q,
\* in validated_data; a vin of 16 or 18 characters, or one containing 'O',
\* always produces an error and makes the record invalid.
C22_VinAsGiven ==
    \A i \in 1..Len(Results) :
        CarriesVin(i) =>
            /\ Results[i].errors = <<>> =>
                  WellFormedVin(Results[i].validated_data.dict["vin"])
            /\ MalformedVin(StrOf(data_list[i].dict["vin"])) => Rejected(i)

\* C22, amended: the same, the length being that of the vin upper-cased and
\* stripped of the whitespace around it, which is the value line 103 hands
\* to _validate_vin.
C22_VinNormalised ==
    \A i \in 1..Len(Results) :
        CarriesVin(i) =>
            /\ Results[i].errors = <<>> =>
                  WellFormedVin(Results[i].validated_data.dict["vin"])
            /\ MalformedVin(Strip(Upper(StrOf(data_list[i].dict["vin"])))) => Rejected(i)

\* a vehicle record whose vin has 18 characters, the first a space, was
\* validated without error and carries the 17 characters in validated_data
C22_Witness ==
    \E i \in 1..Len(Results) :
        /\ CarriesVin(i)
        /\ Len(StrOf(data_list[i].dict["vin"])) = 18
        /\ Results[i].errors = <<>>
        /\ WellFormedVin(Results[i].validated_data.dict["vin"])
        /\ Results[i].validated_data.dict["vin"] # data_list[i].dict["vin"]

\* C23: validate_batch called with a type that is none of vehicle,
\* duty_rate, import_eligibility and timeline_data raises ValueError for
\* every list, the empty list included, and returns no result list.
C23_UnknownTypeRaises ==
    (/\ batch_out # Unset
     /\ data_type \notin {"vehicle", "duty_rate", "import_eligibility", "timeline_data"}) =>
        /\ batch_out = Raised("ValueError")
        /\ ~Returned

\* validate_batch was called with an unregistered type and the empty list
C23_Witness ==
    /\ data_type = UnregisteredType
    /\ data_list = <<>>
    /\ batch_out = Raised("ValueError")

\* field f of record i is missing, None or the empty string
MissingOrEmpty(i, f) ==
    \/ ~Has(data_list[i].dict, f)
    \/ data_list[i].dict[f] \in {PyNone, PyStr(<<>>)}

\* C24: for every record type, a record with a required field that is
\* missing or present but empty (empty string, None) gets an error: it is
\* invalid and its quality_score is 0.
C24_RequiredFields ==
    \A i \in 1..Len(Results) :
        (/\ data_type \in DataTypes
         /\ Kind(data_list[i]) = "dict"
         /\ \E k \in 1..Len(required_fields[data_type]) :
               MissingOrEmpty(i, required_fields[data_type][k])) =>
            /\ Results[i].errors # <<>>
            /\ Results[i].is_valid = FALSE
            /\ IsZeroScore(Results[i].quality_score)

\* record i of a duty rate batch is a dict whose field f is set and non-empty
DutyField(i, f) ==
    /\ data_type = "duty_rate"
    /\ Kind(data_list[i]) = "dict"
    /\ Has(data_list[i].dict, f)
    /\ Truthy(data_list[i].dict[f])

\* C25: a duty rate record whose non-empty hts_code does not match four
\* digits followed by zero to three '.dd' groups gets an error and is
\* invalid, like one with an unparsable effective_date or a negative duty
\* rate.
C25_FormatErrors ==
    \A i \in 1..Len(Results) :
        /\ (/\ DutyField(i, "hts_code")
            /\ ~validate_hts_code(Strip(StrOf(data_list[i].dict["hts_code"])))) => Rejected(i)
        /\ (/\ DutyField(i, "effective_date")
            /\ ~validate_date(data_list[i].dict["effective_date"])) => Rejected(i)
        /\ (/\ DutyField(i, "duty_rate_percent")
            /\ FloatLess(FloatOf(data_list[i].dict["duty_rate_percent"]), 0)) => Rejected(i)

\* the enumerable fields: record type, field, known values
Enumerables ==
    {<<"vehicle", "make", valid_makes>>,
     <<"duty_rate", "country", valid_countries>>,
     <<"import_eligibility", "country_destination", valid_countries>>,
     <<"import_eligibility", "regulatory_authority", regulatory_authorities>>}

\* record i is a dict whose enumerable field e holds a value that is not
\* known, and its validation returns
UnknownValue(i, e) ==
    /\ data_type = e[1]
    /\ Kind(data_list[i]) = "dict"
    /\ Has(data_list[i].dict, e[2])
    /\ FieldText(data_list[i].dict, e[2]) \notin e[3]
    /\ ~Raises(data_type, data_list[i])

\* warning w of result res corrects field f to a known value, or reports
\* the value of f as unknown and leaves it as it was
CorrectsOrWarns(w, res, record, f, known) ==
    /\ w.field = f
    /\ \/ /\ w.text = "corrected"
          /\ w.args[2].str \in known
          /\ res.validated_data.dict[f] = w.args[2]
       \/ /\ w.text # "corrected"
          /\ res.validated_data.dict[f] = record.dict[f]

\* C26: a make, country, country_destination or regulatory_authority that
\* is not a known value appends no error (the only error that may name the
\* field is that of the required-field test): it produces a warning, either
\* a correction with the field rewritten in validated_data or an 'unknown'
\* warning with the field left alone.
C26_UnknownOnlyWarns ==
    \A i \in 1..Len(Results) : \A e \in Enumerables :
        UnknownValue(i, e) =>
            /\ \A k \in 1..Len(Results[i].errors) :
                  Results[i].errors[k].field = e[2] =>
                      Results[i].errors[k].text = "Missing required field"
            /\ \E k \in 1..Len(Results[i].warnings) :
                  CorrectsOrWarns(Results[i].warnings[k], Results[i], data_list[i], e[2], e[3])

\* a vehicle record whose make is not known and cannot be corrected was
\* validated: it is valid and carries the 'unknown' warning
C26_Witness ==
    \E i \in 1..Len(Results) :
        /\ UnknownValue(i, <<"vehicle", "make", valid_makes>>)
        /\ Results[i].is_valid
        /\ \E k \in 1..Len(Results[i].warnings) : Results[i].warnings[k].text = "Unknown make"

\* record i of a duty rate batch is a dict whose country is "usa"
CountryUsa(i) ==
    /\ data_type = "duty_rate"
    /\ Kind(data_list[i]) = "dict"
    /\ Has(data_list[i].dict, "country")
    /\ data_list[i].dict["country"] = PyStr(<<"u", "s", "a">>)

\* the positions of the messages of msgs that name field f
Naming(msgs, f) == {k \in 1..Len(msgs) : msgs[k].field = f}

\* C27: a duty rate record whose country is "usa" has country "United
\* States" in validated_data, exactly one warning about the country, which
\* is the correction, and no error about the country.
C27_UsaCorrected ==
    \A i \in 1..Len(Results) :
        CountryUsa(i) =>
            /\ Results[i].validated_data.dict["country"] =
                   PyStr(<<"U", "n", "i", "t", "e", "d", " ", "S", "t", "a", "t", "e", "s">>)
            /\ Cardinality(Naming(Results[i].warnings, "country")) = 1
            /\ \A k \in Naming(Results[i].warnings, "country") :
                  Results[i].warnings[k].text = "corrected"
            /\ Naming(Results[i].errors, "country") = {}

\* a duty rate record with country "usa" and nothing else to report was
\* validated: it is valid with the correction as its only warning
C27_Witness ==
    \E i \in 1..Len(Results) :
        /\ CountryUsa(i)
        /\ Results[i].is_valid
        /\ Len(Results[i].warnings) = 1
        /\ Results[i].validated_data.dict["country"] # data_list[i].dict["country"]

\* record i of a duty rate batch is a dict whose duty_rate_percent is above
\* 100
HighRate(i) ==
    /\ data_type = "duty_rate"
    /\ Kind(data_list[i]) = "dict"
    /\ Has(data_list[i].dict, "duty_rate_percent")
    /\ FloatGreater(FloatOf(data_list[i].dict["duty_rate_percent"]), 100)

\* what validation returns for the record with an ordinary duty rate in the
\* place of its own
WithOrdinaryRate(record) ==
    validate_duty_rate_data(
        PyDict([record.dict EXCEPT !["duty_rate_percent"] = PyInt(5)]))

\* the record has no defect but its duty rate: with an ordinary rate it
\* validates without error and without warning
NoOtherDefect(record) ==
    \A b \in WithOrdinaryRate(record) :
        ~IsRaised(b) /\ b.errors = <<>> /\ b.warnings = <<>>

\* fraction p is at most nine tenths of fraction q
AtMostNineTenths(p, q) == 10 * p.n * q.d <= 9 * q.n * p.d

\* C28: a duty rate record with a duty_rate_percent above 100 and no other
\* defect is valid, has no error, carries the 'unusually high' warning, and
\* its score is at least a tenth (of the unscaled score 1.0) below that of
\* the record with an ordinary rate: both are scaled by the same
\* completeness.
C28_HighRateWarns ==
    \A i \in 1..Len(Results) :
        (HighRate(i) /\ NoOtherDefect(data_list[i])) =>
            /\ Results[i].is_valid
            /\ Results[i].errors = <<>>
            /\ \E k \in 1..Len(Results[i].warnings) :
                  /\ Results[i].warnings[k].text = "Unusually high duty rate"
                  /\ Results[i].warnings[k].field = "duty_rate_percent"
            /\ \A b \in WithOrdinaryRate(data_list[i]) :
                  AtMostNineTenths(Results[i].quality_score, b.quality_score)

\* a duty rate record with rate 150 and no other defect was validated: its
\* score is 0.9
C28_Witness ==
    \E i \in 1..Len(Results) :
        /\ HighRate(i)
        /\ data_list[i].dict["duty_rate_percent"] = PyInt(150)
        /\ NoOtherDefect(data_list[i])
        /\ Results[i].is_valid
        /\ 10 * Results[i].quality_score.n = 9 * Results[i].quality_score.d

\* a field value that holds nothing: None, the empty text, the empty mapping
IsEmptyValue(v) ==
    \/ v = PyNone
    \/ (Kind(v) = "str" /\ Len(v.str) = 0)
    \/ (Kind(v) = "dict" /\ DOMAIN v.dict = {})

\* fractions p and q are the same number
SameFraction(p, q) == p.n * q.d = q.n * p.d

\* (1 - 0.1 * warning_count) times filled / total, clamped to [0, 1]; the
\* ratio is left out when total is 0
ClampedScore(warning_count, filled, total) ==
    LET tenths == 10 - warning_count
        score == IF total > 0 THEN Fraction(tenths * filled, 10 * total)
                 ELSE Fraction(tenths, 10)
    IN IF score.n <= 0 THEN ScoreZero
       ELSE IF score.n >= score.d THEN Fraction(1, 1) ELSE score

\* the score of result i is the clamped product, the filled fields of its
\* record being those whose value is in the set filled_values
ScoreIsProduct(i, filled_values) ==
    LET data == data_list[i].dict
    IN SameFraction(Results[i].quality_score,
                    ClampedScore(Len(Results[i].warnings),
                                 Cardinality({k \in DOMAIN data : data[k] \in filled_values}),
                                 Cardinality(DOMAIN data)))

\* the values of the fields of record i
FieldValues(i) == {data_list[i].dict[k] : k \in DOMAIN data_list[i].dict}

\* every score is a number of [0, 1]
ScoresInUnitInterval ==
    \A i \in 1..Len(Results) :
        LET q == Results[i].quality_score
        IN q.d > 0 /\ 0 <= q.n /\ q.n <= q.d

\* the product formula with the fields counted as the code counts them: a
\* field is filled when its value is truthy
ScoreByTruthiness ==
    \A i \in 1..Len(Results) :
        Results[i].errors = <<>> =>
            ScoreIsProduct(i, {v \in FieldValues(i) : Truthy(v)})

\* C35: for every record without errors, quality_score equals
\* (1 - 0.1 * warning_count) times (non-empty fields / total fields over the
\* keys of the input record), clamped to [0, 1], the ratio being skipped for
\* a record with no keys; and every result's quality_score is in [0, 1].
C35_ScoreFormula ==
    /\ ScoresInUnitInterval
    /\ \A i \in 1..Len(Results) :
          Results[i].errors = <<>> =>
              ScoreIsProduct(i, {v \in FieldValues(i) : ~IsEmptyValue(v)})

\* the summary of the call, once get_validation_summary has returned
Summarised == summary # Unset

\* the product of the denominators of the scores of all results but result i
RECURSIVE OtherDenominators(_, _)
OtherDenominators(i, k) ==
    IF k = 0 THEN 1
    ELSE (IF k = i THEN 1 ELSE Results[k].quality_score.d) * OtherDenominators(i, k - 1)

RECURSIVE ScoresOverCommon(_)
\* the numerator of the sum of the first k scores over the product of all
\* denominators
ScoresOverCommon(k) ==
    IF k = 0 THEN 0
    ELSE Results[k].quality_score.n * OtherDenominators(k, Len(Results))
         + ScoresOverCommon(k - 1)

\* fraction m is the arithmetic mean of the scores of a non-empty Results
IsMeanOfScores(m) ==
    m.n * OtherDenominators(0, Len(Results)) * Len(Results)
        = ScoresOverCommon(Len(Results)) * m.d

\* the grade of an average: A, B, C, D from 0.9, 0.8, 0.7, 0.6, else F
GradeOf(m) ==
    CASE 10 * m.n >= 9 * m.d -> "A"
      [] 10 * m.n < 9 * m.d /\ 10 * m.n >= 8 * m.d -> "B"
      [] 10 * m.n < 8 * m.d /\ 10 * m.n >= 7 * m.d -> "C"
      [] 10 * m.n < 7 * m.d /\ 10 * m.n >= 6 * m.d -> "D"
      [] 10 * m.n < 6 * m.d -> "F"

EmptySummarised == Summarised /\ Results = <<>>

\* a list with a valid and an invalid record was summarised
MixedSummarised ==
    Summarised /\ summary.valid_records = 1 /\ summary.invalid_records = 1

\* every value a correction put in place is a known make or a known country
CorrectionsKnown ==
    \A i \in 1..Len(Results) :
        \A k \in 1..Len(Results[i].warnings) :
            LET w == Results[i].warnings[k]
            IN w.text = "corrected" =>
                  w.args[2].str \in (IF w.field = "make" THEN valid_makes
                                     ELSE valid_countries)

\* what the call returned is what every validation of the same list returns
SameEveryTime == \A o \in validate_batch(data_list, data_type) : o = batch_out

\* C39: validation is deterministic: validating the same record again, in
\* the same or in another validator, gives the same validated_data,
\* warnings and errors, the value chosen by _find_closest_country and
\* _find_closest_make does not depend on the iteration order of the set of
\* known values, and every corrected value is a known value.
C39_Deterministic ==
    Returned => (SameEveryTime /\ CorrectionsKnown)

\* C5: a run of _run_scraper_job whose Collector raised changes total_runs
\* by exactly 1, failed_runs by exactly 1 and successful_runs not at all;
\* the exception does not leave _run_scraper_job, and the loop thread that
\* ran the job is still alive to run the other due jobs.
C5_CollectorFailureCounted ==
    \A e \in Executors :
        done[e].origin = "collector" =>
            /\ ~done[e].escaped
            /\ spc[e] # "crashed"
            /\ done[e].effect = <<1, 0, 1>>

\* the loop threads that are running
AliveLoops == {l \in Loops : spc[l] \notin {"unborn", "dead", "crashed"}}

\* C7: once start() has returned and while stop() has not been called,
\* however often start() is called again, there is exactly one loop thread
\* and the schedules have been installed exactly once.
C7_StartIdempotent ==
    (ctr.stops = 0 /\ ctr.starts_returned >= 1) =>
        /\ is_running
        /\ AliveLoops = {thread}
        /\ Len(jobs) = Len(Installed(enabled))
        /\ ctr.jobs = Len(Installed(enabled))

\* start() has returned twice and stop() was never called
C7_Witness ==
    /\ ctr.starts_returned = 2
    /\ ctr.stops = 0
    /\ spc[Main] = "idle"

\* C8: no two executions of _run_scraper_job on the scheduler overlap.
C8_OneJobAtATime ==
    \A e1, e2 \in Executors : (InJob(e1) /\ InJob(e2)) => e1 = e2

\* C11: a failed run that brings the consecutive failures of its job to the
\* configured threshold logs the critical alert; here the threshold is 1,
\* which every failed run reaches.
C11_AlertAtThreshold ==
    \A e \in Executors :
        (done[e].ended = "failure" /\ 1 >= max_consecutive_failures) => done[e].alert

\* C12: a run that has ended changed the statistics by one of two complete
\* updates: total_runs and successful_runs by 1, total_records_scraped by
\* the number of records it persisted and last_run_time set; or total_runs
\* and failed_runs by 1 and nothing else.
C12_CompleteUpdates ==
    \A e \in Executors :
        /\ done[e].ended \in {"", "success", "failure"}
        /\ done[e].ended = "success" =>
              /\ done[e].effect = <<1, 1, 0>>
              /\ done[e].records = done[e].persisted
              /\ done[e].stamped
        /\ done[e].ended = "failure" =>
              /\ done[e].effect = <<1, 0, 1>>
              /\ done[e].records = 0
              /\ ~done[e].stamped

\* C13: the constructor does not raise, and with a configuration file that
\* is missing or does not parse the scheduler it returns has the default
\* configuration, every job enabled.
C13_DefaultsOnBadConfig ==
    /\ constructed \in {"no", "yes"}
    /\ (constructed = "yes" /\ config_path.kind # "file") => enabled = get_default_config

\* C14: no run of a registered job ends in the except block because
\* validate_batch raised on the non-empty list its Collector returned: the
\* records are validated under a registered rule set and the run is counted
\* as successful.
C14_ScrapedRunsValidated ==
    \A e \in Executors :
        /\ run[e].origin # "validator"
        /\ (done[e].origin = "validator" => done[e].ended = "success")

\* the indices of the valid results, and the k-th of them
ValidIndices(results) == {i \in 1..Len(results) : results[i].is_valid}
KthValid(results, k) ==
    CHOOSE i \in ValidIndices(results) :
        Cardinality({j \in ValidIndices(results) : j <= i}) = k

\* C15: the records handed to the sink are the validated_data of the valid
\* results, one for each, in input order; none of them has a validation
\* error, and the sink is not called with no record.
C15_OnlyValidPersisted ==
    stored # <<>> =>
        LET records == stored[2]
            results == stored[3]
        IN /\ records # <<>>
           /\ Len(records) = Cardinality(ValidIndices(results))
           /\ \A k \in 1..Len(records) :
                 /\ records[k] = results[KthValid(results, k)].validated_data
                 /\ results[KthValid(results, k)].errors = <<>>

\* the sink got two different records of a run that validated three, the
\* one between them invalid
C15_Witness ==
    /\ stored # <<>>
    /\ Len(stored[3]) = 3
    /\ ~stored[3][2].is_valid
    /\ Len(stored[2]) = 2
    /\ stored[2][1] # stored[2][2]

StopLabels == {"t_flag", "t_join", "t_clear"}

\* C20: once stop() has returned and while start() is not called again, the
\* flag is down and the schedules are cleared, no loop thread begins a new
\* round of run_pending, and every loop thread ends; the steps of stop()
\* leave the job a loop thread is running as it is.
C20_StopEndsLoop ==
    /\ [](ctr.stopped => (~is_running /\ jobs = <<>> /\ due = {}))
    /\ [][ctr.stopped =>
            \A l \in Loops : spc'[l] = "l_pending" => spc[l] = "l_pending"]_vars
    /\ [][(spc[Main] \in StopLabels /\ spc'[Main] # spc[Main]) =>
            \A l \in Loops : /\ spc'[l] = spc[l]
                             /\ frame'[l] = frame[l]
                             /\ run'[l] = run[l]]_vars
    /\ ctr.stopped ~> (~ctr.stopped \/ \A l \in Loops : spc[l] \in {"unborn", "dead"})

\* stop() has returned while the loop thread is still inside a job run
C20_Witness ==
    /\ ctr.stopped
    /\ spc[Main] = "idle"
    /\ InJob(1)

\* C21: the step that ends _generate_daily_report leaves total_runs,
\* successful_runs, failed_runs and total_records_scraped at 0; the report
\* carries the values the counters had when it was built, and no step of
\* the report changes last_run_time.
C21_ReportResets ==
    [][\A l \in Loops :
          /\ (spc[l] = "r_report" /\ spc'[l] = "r_total") =>
                report' = <<stats.total_runs, stats.successful_runs, stats.failed_runs,
                            stats.total_records_scraped>>
          /\ (InReport(l) /\ spc'[l] # spc[l]) =>
                stats'.last_run_time = stats.last_run_time
          /\ (spc[l] = "r_records" /\ spc'[l] = "l_ran") =>
                /\ stats'.total_runs = 0
                /\ stats'.successful_runs = 0
                /\ stats'.failed_runs = 0
                /\ stats'.total_records_scraped = 0]_vars

\* C29: the statistics a status returned by get_status() holds stay what
\* they were at the return, and only steps of a loop thread change the
\* scheduler's statistics.
C29_StatsSnapshot ==
    /\ [](last_status # NoStatus => StatsHeld(last_status) = last_status.stats_then)
    /\ [][stats' # stats => \E l \in Loops : spc'[l] # spc[l]]_vars

\* no executor is inside a job run or a daily report
Quiescent == \A e \in Executors : ~Busy(e)

\* C37: in every state in which no job run (and no daily report) is in
\* progress, after any sequence of job runs and reports, total_runs =
\* successful_runs + failed_runs and no counter is negative.
C37_RunsAddUp ==
    (constructed = "yes" /\ Quiescent) =>
        /\ stats.total_runs = stats.successful_runs + stats.failed_runs
        /\ stats.total_runs >= 0
        /\ stats.successful_runs >= 0
        /\ stats.failed_runs >= 0
        /\ stats.total_records_scraped >= 0

\* the loop threads that have found is_running true and are about to poll
\* the schedule (line 330)
PollingLoops == {l \in Loops : spc[l] = "l_pending"}

\* the state a first start() leaves is one the scheduler reaches
StartedOnce ==
    /\ ctr.starts_returned = 1
    /\ ctr.calls = 1
    /\ spc = [e \in Executors |-> IF e = Main THEN "idle"
                                  ELSE IF e = 1 THEN "l_test" ELSE "unborn"]
    /\ is_running
    /\ thread = 1
    /\ jobs = NewJobs(Installed(enabled), 0)
    /\ due = {}
    /\ stats = InitialStats

\* C38: after any sequence of start() and stop() calls, start, stop, start
\* in quick succession included, at most one loop thread is alive and
\* polling run_pending: no loop that outlived stop()'s join of 5 seconds
\* resumes next to the loop of a later start().
C38_NoZombieLoop == Cardinality(PollingLoops) <= 1

\* C40: a run that has ended is counted in failed_runs if and only if an
\* exception was raised inside _run_scraper_job (lookup of the job name,
\* Collector, validator or sink); a run in which nothing was raised, the
\* Collector's result holding no records included, is counted in
\* successful_runs and sets last_run_time.
C40_FailedIffRaised ==
    \A e \in Executors :
        done[e].ended \in {"success", "failure"} =>
            /\ (done[e].origin # "") <=> (done[e].ended = "failure")
            /\ (done[e].origin # "") <=> (done[e].effect[3] = 1)
            /\ done[e].origin = "" =>
                  /\ done[e].effect[2] = 1
                  /\ done[e].effect[3] = 0
                  /\ done[e].stamped

====
